---- MODULE Spec2Model ----
(***************************************************************************)
(* State-machine model of the AUTOSAR-style SPI Handler/Driver of the MCAL *)
(* repository (src/Spi/Spi.h holds Spi.h and Spi.c, src/Spi/Spi_Cfg.h the  *)
(* job and sequence tables).                                               *)
(*                                                                         *)
(* The driver runs in a single flow of control.  Every API function is an  *)
(* action taken while no other call is in progress (pc = "idle").  The two *)
(* sequence runs busy-wait on hardware flags, so they are modelled step by *)
(* step: pc is the position inside the run, run holds its local variables. *)
(* The STM32 peripheral library is external: the value returned by a flag  *)
(* read is a nondeterministic choice, and every call into the library is   *)
(* appended to hwLog, the list of hardware calls of the current API call.  *)
(***************************************************************************)
EXTENDS Integers, Sequences, FiniteSets, TLC

VARIABLES
    Spi_Status,          \* Spi_StatusType Spi_Status[SPI_MAX_CHANNEL]
    Spi_SequenceStatus,  \* Spi_SeqResultType Spi_SequenceStatus[SPI_MAX_SEQUENCE]
    Spi_JobStatus,       \* Spi_JobResultType Spi_JobStatus[SPI_MAX_JOB]
    Spi_Jobs,            \* Spi_JobConfigType Spi_Jobs[] (non-const table)
    CR1_SPE,             \* SPIx->CR1 & SPI_CR1_SPE of both hardware units
    pc,                  \* position of the flow of control
    run,                 \* locals of the sequence run in progress / last run
    hwLog,               \* hardware calls made by the current / last API call
    lastCall,            \* the current / last API call: op, arg, ret
    pre,                 \* status cells at entry of the current / last API call
    GPIO_ODR,            \* output data register of GPIOA, GPIOB, GPIOC
    dio,                 \* the Dio_WriteChannelGroup call: arguments, position
    memo,                \* a remembered run state, for the comparison of modes
    initSince,           \* a valid Spi_Init has returned since the last Spi_DeInit
    LinChannelState,     \* Lin_StatusType LinChannelState[MAX_LIN_CHANNELS]
    lin                  \* the Lin call: position, arguments, USART calls, history

vars == <<Spi_Status, Spi_SequenceStatus, Spi_JobStatus, Spi_Jobs, CR1_SPE,
          pc, run, hwLog, lastCall, pre, GPIO_ODR, dio, memo, initSince,
          LinChannelState, lin>>

spiVars == <<Spi_Status, Spi_SequenceStatus, Spi_JobStatus, Spi_Jobs, CR1_SPE,
             pc, run, hwLog, lastCall, pre, initSince>>

dioVars == <<GPIO_ODR, dio>>

linVars == <<LinChannelState, lin>>

----------------------------------------------------------------------------
(* Configuration macros, src/Spi/Spi.h *)

SPI_MAX_CHANNEL == 2
SPI_CHANNEL_1 == 0
SPI_CHANNEL_2 == 1
SPI_MAX_SEQUENCE == 2
SPI_MAX_JOB == 2

(* Bound of the model: identifier arguments are drawn from 0..MaxId. *)
MaxId == 3

SPI_UNINIT == "SPI_UNINIT"
SPI_IDLE == "SPI_IDLE"
SPI_BUSY == "SPI_BUSY"
Spi_StatusType == {SPI_UNINIT, SPI_IDLE, SPI_BUSY}

SPI_JOB_OK == "SPI_JOB_OK"
SPI_JOB_PENDING == "SPI_JOB_PENDING"
SPI_JOB_FAILED == "SPI_JOB_FAILED"
SPI_JOB_QUEUED == "SPI_JOB_QUEUED"
Spi_JobResultType == {SPI_JOB_OK, SPI_JOB_PENDING, SPI_JOB_FAILED, SPI_JOB_QUEUED}

SPI_SEQ_OK == "SPI_SEQ_OK"
SPI_SEQ_PENDING == "SPI_SEQ_PENDING"
SPI_SEQ_FAILED == "SPI_SEQ_FAILED"
SPI_SEQ_CANCELED == "SPI_SEQ_CANCELED"
Spi_SeqResultType == {SPI_SEQ_OK, SPI_SEQ_PENDING, SPI_SEQ_FAILED, SPI_SEQ_CANCELED}

E_OK == "E_OK"
E_NOT_OK == "E_NOT_OK"

NULL == [null |-> TRUE]

(* Hardware units and flag values of the peripheral library *)
SPI1 == "SPI1"
SPI2 == "SPI2"
HwUnits == {SPI1, SPI2}
SET == "SET"
RESET == "RESET"
FlagStatus == {SET, RESET}

Channels == 0 .. (SPI_MAX_CHANNEL - 1)
Jobs == 0 .. (SPI_MAX_JOB - 1)
Sequences == 0 .. (SPI_MAX_SEQUENCE - 1)
Ids == 0 .. MaxId

----------------------------------------------------------------------------
(* Configuration tables, src/Spi/Spi_Cfg.h *)

(* Spi_Jobs[] = {{SPI_CHANNEL_1, {0xA5}}, {SPI_CHANNEL_2, {0x10}}} *)
Spi_Jobs_Table ==
    [j \in Jobs |-> IF j = 0 THEN [Channel |-> SPI_CHANNEL_1, DataBuffer |-> 165]
                             ELSE [Channel |-> SPI_CHANNEL_2, DataBuffer |-> 16]]

(* const Spi_Sequences[SPI_MAX_SEQUENCE] = {{.Jobs = {0, 1}, .JobCount = 2}}: *)
(* the second element has no initializer and is zero-initialized.           *)
Spi_Sequences ==
    [s \in Sequences |-> IF s = 0 THEN [Jobs |-> [i \in Jobs |-> i], JobCount |-> 2]
                                  ELSE [Jobs |-> [i \in Jobs |-> 0], JobCount |-> 0]]

----------------------------------------------------------------------------
(* Bookkeeping shared by all actions *)

HwCall(call, unit, flag, data, ret) ==
    [call |-> call, unit |-> unit, flag |-> flag, data |-> data, ret |-> ret]

Snapshot ==
    [Status |-> Spi_Status, Job |-> Spi_JobStatus, Seq |-> Spi_SequenceStatus,
     SPE |-> CR1_SPE]

(* `checked` records the range comparisons the run has executed, as pairs  *)
(* <<identifier, limit>>.                                                 *)
NoRun == [mode |-> "none", Sequence |-> 0, jobIndex |-> 0, currentJob |-> 0,
          checked |-> {},
          channel |-> 0, unit |-> SPI1]

----------------------------------------------------------------------------
(* Dio_WriteChannelGroup, src/Dio/Dio.c 257-289.  A word is the set of the *)
(* positions of its bits that are 1, so the bitwise operators of the code  *)
(* are the set operators.                                                  *)

IntBits == 32
PortBits == 16
MaxPortId == 3

Word(n) == 0 .. (n - 1)

GPIOA == "GPIOA"
GPIOB == "GPIOB"
GPIOC == "GPIOC"
DioPorts == {GPIOA, GPIOB, GPIOC}

(* The argument values the call is explored with *)
DioMasks == {{}, 0 .. 3, 4 .. 7, 8 .. 15, {1, 6, 9}, 14 .. 17, Word(IntBits)}
DioOffsets == {0, 4, 8, 15, 16, 31, 32, 36}
DioLevels == {{}, {0}, {1, 3}, 0 .. 3, {0, 7, 15}, Word(PortBits)}
DioPortIds == 0 .. MaxPortId
DioPortValues == {{}, {0, 2, 5, 7, 8, 10, 13, 15}}

NoDioCall ==
    [pc |-> "done",
     ChannelGroup |-> [mask |-> {}, offset |-> 0, port |-> 0],
     Level |-> {},
     pre |-> [p \in DioPorts |-> {}],
     writes |-> <<>>]

NoMemo == [phase |-> "none"]

----------------------------------------------------------------------------
(* LIN driver state, src/Lin/Lin_Cfg.h and src/MCAL/Lin/Lin.c *)

MAX_LIN_CHANNELS == 2
MaxLinChannel == 3

LIN_CH_SLEEP == "LIN_CH_SLEEP"
LIN_CH_OPERATIONAL == "LIN_CH_OPERATIONAL"
LIN_CH_SLEEP_PENDING == "LIN_CH_SLEEP_PENDING"
LIN_NOT_OK == "LIN_NOT_OK"
Lin_StatusType == {LIN_CH_SLEEP, LIN_CH_OPERATIONAL, LIN_CH_SLEEP_PENDING}

LinChannels == 0 .. (MAX_LIN_CHANNELS - 1)
LinIds == 0 .. MaxLinChannel
LinSduPtrs == {NULL, [null |-> FALSE]}

(* lin.log is the list of USART calls of the current / last Lin call,      *)
(* lin.pre the channel states at its entry; lin.last is, per channel, the  *)
(* last of Lin_Wakeup, Lin_GoToSleep and Lin_GoToSleepInternal that has    *)
(* returned for the channel, lin.preLast the same at the entry of the call.*)
NoLinCall ==
    [pc |-> "idle", op |-> "none", Channel |-> 0, ret |-> "void", log |-> <<>>,
     pre |-> [c \in LinChannels |-> LIN_CH_SLEEP],
     last |-> [c \in LinChannels |-> "none"],
     preLast |-> [c \in LinChannels |-> "none"]]

Init ==
    /\ Spi_Status = [c \in Channels |-> SPI_UNINIT]
    /\ Spi_SequenceStatus = [s \in Sequences |-> SPI_SEQ_PENDING]
    /\ Spi_JobStatus = [j \in Jobs |-> SPI_JOB_PENDING]
    /\ Spi_Jobs = Spi_Jobs_Table
    /\ CR1_SPE = [u \in HwUnits |-> FALSE]
    /\ pc = "idle"
    /\ run = NoRun
    /\ hwLog = <<>>
    /\ lastCall = [op |-> "none", arg |-> 0, ret |-> "void"]
    /\ pre = Snapshot
    /\ GPIO_ODR = [p \in DioPorts |-> {}]
    /\ dio = NoDioCall
    /\ memo = NoMemo
    /\ initSince = FALSE
    /\ LinChannelState = [c \in LinChannels |-> LIN_CH_SLEEP]
    /\ lin = NoLinCall

----------------------------------------------------------------------------
(* Spi_Init, src/Spi/Spi.h 855-931 *)

ConfigPtrs == {NULL} \cup {[Channel |-> c] : c \in Ids}

(* Mutant of Init_Branch: the last branch is a plain else, so every channel *)
(* other than SPI_CHANNEL_1 is treated as SPI2.                            *)
Init_Branch_FallThrough(ConfigPtr) ==
    IF ConfigPtr = NULL THEN "return"
    ELSE IF ConfigPtr.Channel = SPI_CHANNEL_1 THEN SPI1
    ELSE SPI2

(* The unit selected by the if / else-if chain, or "return" for the two    *)
(* early returns (NULL pointer, channel that is neither SPI1 nor SPI2).    *)
Init_Branch(ConfigPtr) ==
    IF ConfigPtr = NULL THEN "return"
    ELSE IF ConfigPtr.Channel = SPI_CHANNEL_1 THEN SPI1
    ELSE IF ConfigPtr.Channel = SPI_CHANNEL_2 THEN SPI2
    ELSE "return"

(* Mutant of Init_Status: the SPI2 branch, copied from the SPI1 branch,     *)
(* still writes the status of SPI_CHANNEL_1.                               *)
Init_Status_CopyPaste(unit) ==
    [Spi_Status EXCEPT ![SPI_CHANNEL_1] = SPI_IDLE]

(* Spi_Status[SPI_CHANNEL_x] = SPI_IDLE in the branch of unit SPIx *)
Init_Status(unit) ==
    IF unit = SPI1 THEN [Spi_Status EXCEPT ![SPI_CHANNEL_1] = SPI_IDLE]
                   ELSE [Spi_Status EXCEPT ![SPI_CHANNEL_2] = SPI_IDLE]

(* Clock enable, pin set-up, SPI_Init and SPI_Cmd(SPIx, ENABLE) *)
Init_HwCalls(unit) ==
    IF unit = SPI1
    THEN << HwCall("RCC_APB2PeriphClockCmd", "SPI1|GPIOA", "ENABLE", -1, "void"),
            HwCall("GPIO_Init", "GPIOA", "SCK|MISO|MOSI", -1, "void"),
            HwCall("GPIO_Init", "GPIOA", "NSS", -1, "void"),
            HwCall("SPI_Init", SPI1, "-", -1, "void"),
            HwCall("SPI_Cmd", SPI1, "ENABLE", -1, "void") >>
    ELSE << HwCall("RCC_APB1PeriphClockCmd", "SPI2", "ENABLE", -1, "void"),
            HwCall("RCC_APB2PeriphClockCmd", "GPIOB", "ENABLE", -1, "void"),
            HwCall("GPIO_Init", "GPIOB", "SCK|MISO|MOSI", -1, "void"),
            HwCall("GPIO_Init", "GPIOB", "NSS", -1, "void"),
            HwCall("SPI_Init", SPI2, "-", -1, "void"),
            HwCall("SPI_Cmd", SPI2, "ENABLE", -1, "void") >>

Spi_Init(ConfigPtr) ==
    /\ pc = "idle"
    /\ pre' = Snapshot
    /\ lastCall' = [op |-> "Spi_Init", arg |-> ConfigPtr, ret |-> "void"]
    /\ LET unit == Init_Branch(ConfigPtr) IN
       IF unit = "return"
       THEN /\ hwLog' = <<>>
            /\ UNCHANGED <<Spi_Status, CR1_SPE>>
       ELSE /\ Spi_Status' = Init_Status(unit)
            /\ hwLog' = Init_HwCalls(unit)
            /\ CR1_SPE' = [CR1_SPE EXCEPT ![unit] = TRUE]
    /\ initSince' = (initSince \/ Init_Branch(ConfigPtr) # "return")
    /\ UNCHANGED <<Spi_SequenceStatus, Spi_JobStatus, Spi_Jobs, pc, run>>
    /\ UNCHANGED <<dioVars, memo, linVars>>

----------------------------------------------------------------------------
(* Spi_DeInit, src/Spi/Spi.h 939-976 *)

(* Mutant of DeInit_Status: only the first channel is released. *)
DeInit_Status_OneChannel ==
    [Spi_Status EXCEPT ![SPI_CHANNEL_1] = SPI_UNINIT]

(* Spi_Status[SPI_CHANNEL_1] = SPI_UNINIT; Spi_Status[SPI_CHANNEL_2] = SPI_UNINIT *)
DeInit_Status ==
    [[Spi_Status EXCEPT ![SPI_CHANNEL_1] = SPI_UNINIT] EXCEPT ![SPI_CHANNEL_2] = SPI_UNINIT]

DeInit_HwCalls ==
    << HwCall("SPI_Cmd", SPI1, "DISABLE", -1, "void"),
       HwCall("SPI_Cmd", SPI2, "DISABLE", -1, "void"),
       HwCall("RCC_APB2PeriphClockCmd", "SPI1", "DISABLE", -1, "void"),
       HwCall("RCC_APB1PeriphClockCmd", "SPI2", "DISABLE", -1, "void"),
       HwCall("RCC_APB2PeriphClockCmd", "GPIOA", "ENABLE", -1, "void"),
       HwCall("GPIO_Init", "GPIOA", "IN_FLOATING", -1, "void"),
       HwCall("RCC_APB2PeriphClockCmd", "GPIOB", "ENABLE", -1, "void"),
       HwCall("GPIO_Init", "GPIOB", "IN_FLOATING", -1, "void") >>

(* The SPE bits the final check can read back: a unit that was not enabled *)
(* reads disabled; whether an enabled unit honours the disable request is  *)
(* the hardware's answer.                                                  *)
DeInit_Readback ==
    {spe \in [HwUnits -> BOOLEAN] : \A u \in HwUnits : spe[u] => CR1_SPE[u]}

(* Mutant of DeInit_Return: only the first unit is asked. *)
DeInit_Return_FirstUnitOnly(spe) ==
    IF ~spe[SPI1] THEN E_OK ELSE E_NOT_OK

(* (SPI1->CR1 & SPI_CR1_SPE) == 0 && (SPI2->CR1 & SPI_CR1_SPE) == 0 *)
DeInit_Return(spe) ==
    IF ~spe[SPI1] /\ ~spe[SPI2] THEN E_OK ELSE E_NOT_OK

(* Mutant of Spi_DeInit: the results are put back to their initial value. *)
Spi_DeInit_ResetsResults ==
    /\ pc = "idle"
    /\ pre' = Snapshot
    /\ Spi_Status' = DeInit_Status
    /\ hwLog' = DeInit_HwCalls
    /\ \E spe \in DeInit_Readback :
          /\ CR1_SPE' = spe
          /\ lastCall' = [op |-> "Spi_DeInit", arg |-> 0, ret |-> DeInit_Return(spe)]
    /\ initSince' = FALSE
    /\ Spi_JobStatus' = [j \in Jobs |-> SPI_JOB_PENDING]
    /\ Spi_SequenceStatus' = [s \in Sequences |-> SPI_SEQ_PENDING]
    /\ UNCHANGED <<Spi_Jobs, pc, run>>
    /\ UNCHANGED <<dioVars, memo, linVars>>

Spi_DeInit ==
    /\ pc = "idle"
    /\ pre' = Snapshot
    /\ Spi_Status' = DeInit_Status
    /\ hwLog' = DeInit_HwCalls
    /\ \E spe \in DeInit_Readback :
          /\ CR1_SPE' = spe
          /\ lastCall' = [op |-> "Spi_DeInit", arg |-> 0, ret |-> DeInit_Return(spe)]
    /\ initSince' = FALSE
    /\ UNCHANGED <<Spi_SequenceStatus, Spi_JobStatus, Spi_Jobs, pc, run>>
    /\ UNCHANGED <<dioVars, memo, linVars>>

----------------------------------------------------------------------------
(* Status query surface, src/Spi/Spi.h 1162-1222 *)

(* Mutant of Spi_GetStatus_Ret: the two loops in the opposite order. *)
Spi_GetStatus_Ret_IdleFirst ==
    IF \E i \in 0 .. (SPI_MAX_CHANNEL - 1) : Spi_Status[i] # SPI_UNINIT THEN SPI_IDLE
    ELSE IF \E i \in 0 .. (SPI_MAX_CHANNEL - 1) : Spi_Status[i] = SPI_BUSY THEN SPI_BUSY
    ELSE SPI_UNINIT

(* Mutant of Spi_GetJobResult_Ret: off-by-one bounds check. *)
Spi_GetJobResult_Ret_OffByOne(Job) ==
    IF Job >= SPI_MAX_JOB - 1 THEN SPI_JOB_FAILED ELSE Spi_JobStatus[Job]

(* First loop: any channel busy; second loop: any channel not uninitialized *)
Spi_GetStatus_Ret ==
    IF \E i \in 0 .. (SPI_MAX_CHANNEL - 1) : Spi_Status[i] = SPI_BUSY THEN SPI_BUSY
    ELSE IF \E i \in 0 .. (SPI_MAX_CHANNEL - 1) : Spi_Status[i] # SPI_UNINIT THEN SPI_IDLE
    ELSE SPI_UNINIT

Spi_GetJobResult_Ret(Job) ==
    IF Job >= SPI_MAX_JOB THEN SPI_JOB_FAILED ELSE Spi_JobStatus[Job]

Spi_GetSequenceResult_Ret(Sequence) ==
    IF Sequence >= SPI_MAX_SEQUENCE THEN SPI_SEQ_FAILED ELSE Spi_SequenceStatus[Sequence]

Spi_GetStatus ==
    /\ pc = "idle"
    /\ pre' = Snapshot
    /\ hwLog' = <<>>
    /\ lastCall' = [op |-> "Spi_GetStatus", arg |-> 0, ret |-> Spi_GetStatus_Ret]
    /\ UNCHANGED <<Spi_Status, Spi_SequenceStatus, Spi_JobStatus, Spi_Jobs, CR1_SPE,
                   pc, run>>
    /\ UNCHANGED <<dioVars, memo, linVars, initSince>>

(* Mutant of Spi_GetJobResult: a read that clears the cell it has read. *)
Spi_GetJobResult_ReadAndClear(Job) ==
    /\ pc = "idle"
    /\ pre' = Snapshot
    /\ hwLog' = <<>>
    /\ lastCall' = [op |-> "Spi_GetJobResult", arg |-> Job,
                    ret |-> IF Job >= SPI_MAX_JOB THEN SPI_JOB_FAILED
                                                  ELSE Spi_JobStatus[Job]]
    /\ Spi_JobStatus' = [j \in Jobs |-> IF j = Job THEN SPI_JOB_PENDING
                                                   ELSE Spi_JobStatus[j]]
    /\ UNCHANGED <<Spi_Status, Spi_SequenceStatus, Spi_Jobs, CR1_SPE, pc, run>>
    /\ UNCHANGED <<dioVars, memo, linVars, initSince>>

Spi_GetJobResult(Job) ==
    /\ pc = "idle"
    /\ pre' = Snapshot
    /\ hwLog' = <<>>
    /\ lastCall' = [op |-> "Spi_GetJobResult", arg |-> Job,
                    ret |-> Spi_GetJobResult_Ret(Job)]
    /\ UNCHANGED <<Spi_Status, Spi_SequenceStatus, Spi_JobStatus, Spi_Jobs, CR1_SPE,
                   pc, run>>
    /\ UNCHANGED <<dioVars, memo, linVars, initSince>>

Spi_GetSequenceResult(Sequence) ==
    /\ pc = "idle"
    /\ pre' = Snapshot
    /\ hwLog' = <<>>
    /\ lastCall' = [op |-> "Spi_GetSequenceResult", arg |-> Sequence,
                    ret |-> Spi_GetSequenceResult_Ret(Sequence)]
    /\ UNCHANGED <<Spi_Status, Spi_SequenceStatus, Spi_JobStatus, Spi_Jobs, CR1_SPE,
                   pc, run>>
    /\ UNCHANGED <<dioVars, memo, linVars, initSince>>

----------------------------------------------------------------------------
(* A busy-wait loop polls the same flag of the same unit until it changes: *)
(* polls that repeat the previous answer are logged once.                  *)
AppendPoll(log, e) ==
    IF Len(log) > 0 /\ log[Len(log)] = e THEN log ELSE Append(log, e)

----------------------------------------------------------------------------
(* Spi_SyncTransmit, src/Spi/Spi.h 1258-1338 *)

(* Mutant of Sync_Guard: the initialization check is missing. *)
Sync_Guard_NoInitCheck(Sequence) ==
    Sequence >= SPI_MAX_CHANNEL

(* Mutant of Sync_Guard: a sequence without jobs is turned away. *)
Sync_Guard_RejectsEmpty(Sequence) ==
    \/ Spi_Status[0] = SPI_UNINIT /\ Spi_Status[1] = SPI_UNINIT
    \/ Sequence >= SPI_MAX_CHANNEL
    \/ Spi_Sequences[Sequence].JobCount = 0

(* The two guards before the first status write *)
Sync_Guard(Sequence) ==
    \/ Spi_Status[0] = SPI_UNINIT /\ Spi_Status[1] = SPI_UNINIT
    \/ Sequence >= SPI_MAX_CHANNEL

(* Entry: guards, Spi_SequenceStatus[Sequence] = SPI_SEQ_PENDING, jobIndex = 0 *)
Spi_SyncTransmit(Sequence) ==
    /\ pc = "idle"
    /\ pre' = Snapshot
    /\ hwLog' = <<>>
    /\ IF Sync_Guard(Sequence)
       THEN /\ lastCall' = [op |-> "Spi_SyncTransmit", arg |-> Sequence, ret |-> E_NOT_OK]
            /\ UNCHANGED <<Spi_SequenceStatus, pc, run>>
       ELSE /\ Spi_SequenceStatus' =
                   [Spi_SequenceStatus EXCEPT ![Sequence] = SPI_SEQ_PENDING]
            /\ run' = [NoRun EXCEPT !.mode = "Sync", !.Sequence = Sequence,
                                    !.checked = {<<"Sequence", "SPI_MAX_CHANNEL">>}]
            /\ pc' = "loop"
            /\ lastCall' = [op |-> "Spi_SyncTransmit", arg |-> Sequence, ret |-> "running"]
    /\ UNCHANGED <<Spi_Status, Spi_JobStatus, Spi_Jobs, CR1_SPE>>
    /\ UNCHANGED <<dioVars, memo, linVars, initSince>>

(* Mutant of Sync_Loop: the final write of SPI_SEQ_OK is missing. *)
Sync_Loop_NoSeqOk ==
    /\ pc = "loop" /\ run.mode = "Sync"
    /\ LET SequenceConfig == Spi_Sequences[run.Sequence] IN
       IF run.jobIndex < SequenceConfig.JobCount
       THEN LET currentJob == SequenceConfig.Jobs[run.jobIndex]
                channel == Spi_Jobs[currentJob].Channel
            IN /\ Spi_JobStatus' = [Spi_JobStatus EXCEPT ![currentJob] = SPI_JOB_PENDING]
               /\ run' = [run EXCEPT !.currentJob = currentJob, !.channel = channel,
                                    !.checked = @ \cup {<<"jobIndex", "JobCount">>}]
               /\ pc' = "dispatch"
               /\ UNCHANGED <<Spi_SequenceStatus, lastCall>>
       ELSE /\ lastCall' = [lastCall EXCEPT !.ret = E_OK]
            /\ pc' = "idle"
            /\ UNCHANGED <<Spi_SequenceStatus, Spi_JobStatus, run>>
    /\ UNCHANGED <<Spi_Status, Spi_Jobs, CR1_SPE, hwLog, pre>>
    /\ UNCHANGED <<dioVars, memo, linVars, initSince>>

(* Loop head: jobIndex < JobCount, read the job's configuration and set    *)
(* Spi_JobStatus[currentJob] = SPI_JOB_PENDING; after the last job set the *)
(* sequence SPI_SEQ_OK and return E_OK.                                    *)
Sync_Loop ==
    /\ pc = "loop" /\ run.mode = "Sync"
    /\ LET SequenceConfig == Spi_Sequences[run.Sequence] IN
       IF run.jobIndex < SequenceConfig.JobCount
       THEN LET currentJob == SequenceConfig.Jobs[run.jobIndex]
                channel == Spi_Jobs[currentJob].Channel
            IN /\ Spi_JobStatus' = [Spi_JobStatus EXCEPT ![currentJob] = SPI_JOB_PENDING]
               /\ run' = [run EXCEPT !.currentJob = currentJob, !.channel = channel,
                                    !.checked = @ \cup {<<"jobIndex", "JobCount">>}]
               /\ pc' = "dispatch"
               /\ UNCHANGED <<Spi_SequenceStatus, lastCall>>
       ELSE /\ Spi_SequenceStatus' =
                   [Spi_SequenceStatus EXCEPT ![run.Sequence] = SPI_SEQ_OK]
            /\ lastCall' = [lastCall EXCEPT !.ret = E_OK]
            /\ pc' = "idle"
            /\ UNCHANGED <<Spi_JobStatus, run>>
    /\ UNCHANGED <<Spi_Status, Spi_Jobs, CR1_SPE, hwLog, pre>>
    /\ UNCHANGED <<dioVars, memo, linVars, initSince>>

(* Mutant of Sync_JobFailed: the return is missing, the loop goes on. *)
Sync_JobFailed_NoReturn ==
    /\ Spi_JobStatus' = [Spi_JobStatus EXCEPT ![run.currentJob] = SPI_JOB_FAILED]
    /\ Spi_SequenceStatus' = [Spi_SequenceStatus EXCEPT ![run.Sequence] = SPI_SEQ_FAILED]
    /\ run' = [run EXCEPT !.jobIndex = (run.jobIndex + 1) % 256]
    /\ pc' = "loop"
    /\ UNCHANGED lastCall

(* Mutant of Sync_JobFailed: the sequence status is not written. *)
Sync_JobFailed_NoSeqStatus ==
    /\ Spi_JobStatus' = [Spi_JobStatus EXCEPT ![run.currentJob] = SPI_JOB_FAILED]
    /\ lastCall' = [lastCall EXCEPT !.ret = E_NOT_OK]
    /\ pc' = "idle"
    /\ UNCHANGED <<Spi_SequenceStatus, run>>

(* Mutant of Sync_JobFailed: the sequence is reported as canceled. *)
Sync_JobFailed_Canceled ==
    /\ Spi_JobStatus' = [Spi_JobStatus EXCEPT ![run.currentJob] = SPI_JOB_FAILED]
    /\ Spi_SequenceStatus' = [Spi_SequenceStatus EXCEPT ![run.Sequence] = SPI_SEQ_CANCELED]
    /\ lastCall' = [lastCall EXCEPT !.ret = E_NOT_OK]
    /\ pc' = "idle"
    /\ UNCHANGED run

(* Mutant of Sync_JobFailed: the failure branch returns E_OK. *)
Sync_JobFailed_ReturnsOk ==
    /\ Spi_JobStatus' = [Spi_JobStatus EXCEPT ![run.currentJob] = SPI_JOB_FAILED]
    /\ Spi_SequenceStatus' = [Spi_SequenceStatus EXCEPT ![run.Sequence] = SPI_SEQ_FAILED]
    /\ lastCall' = [lastCall EXCEPT !.ret = E_OK]
    /\ pc' = "idle"
    /\ UNCHANGED run

(* Failure of the current job: both status writes and return E_NOT_OK *)
Sync_JobFailed ==
    /\ Spi_JobStatus' = [Spi_JobStatus EXCEPT ![run.currentJob] = SPI_JOB_FAILED]
    /\ Spi_SequenceStatus' = [Spi_SequenceStatus EXCEPT ![run.Sequence] = SPI_SEQ_FAILED]
    /\ lastCall' = [lastCall EXCEPT !.ret = E_NOT_OK]
    /\ pc' = "idle"
    /\ UNCHANGED run

(* Mutant of Sync_JobOk: the job's result is not written. *)
Sync_JobOk_NoStatus ==
    /\ run' = [run EXCEPT !.jobIndex = (run.jobIndex + 1) % 256]
    /\ pc' = "loop"
    /\ UNCHANGED <<Spi_JobStatus, Spi_SequenceStatus, lastCall>>

(* Mutant of Sync_JobOk: every job's result is written. *)
Sync_JobOk_AllJobs ==
    /\ Spi_JobStatus' = [j \in Jobs |-> SPI_JOB_OK]
    /\ run' = [run EXCEPT !.jobIndex = (run.jobIndex + 1) % 256]
    /\ pc' = "loop"
    /\ UNCHANGED <<Spi_SequenceStatus, lastCall>>

(* Mutant of Sync_JobOk: the loop steps over the next position. *)
Sync_JobOk_SkipsNext ==
    /\ Spi_JobStatus' = [Spi_JobStatus EXCEPT ![run.currentJob] = SPI_JOB_OK]
    /\ run' = [run EXCEPT !.jobIndex = (run.jobIndex + 2) % 256]
    /\ pc' = "loop"
    /\ UNCHANGED <<Spi_SequenceStatus, lastCall>>

(* Success of the current job: SPI_JOB_OK and the loop's jobIndex++ *)
Sync_JobOk ==
    /\ Spi_JobStatus' = [Spi_JobStatus EXCEPT ![run.currentJob] = SPI_JOB_OK]
    /\ run' = [run EXCEPT !.jobIndex = (run.jobIndex + 1) % 256]
    /\ pc' = "loop"
    /\ UNCHANGED <<Spi_SequenceStatus, lastCall>>

(* Mutant of Sync_Dispatch: both branches drive the first unit. *)
Sync_Dispatch_OneUnit ==
    /\ pc = "dispatch" /\ run.mode = "Sync"
    /\ IF run.channel = SPI_CHANNEL_1 \/ run.channel = SPI_CHANNEL_2
       THEN /\ run' = [run EXCEPT !.unit = SPI1]
            /\ pc' = "txe"
            /\ UNCHANGED <<Spi_JobStatus, Spi_SequenceStatus, lastCall>>
       ELSE Sync_JobFailed
    /\ UNCHANGED <<Spi_Status, Spi_Jobs, CR1_SPE, hwLog, pre>>
    /\ UNCHANGED <<dioVars, memo, linVars, initSince>>

(* Mutant of Sync_Dispatch: a plain else takes the second unit. *)
Sync_Dispatch_ElseSecondUnit ==
    /\ pc = "dispatch" /\ run.mode = "Sync"
    /\ run' = [run EXCEPT !.unit = IF run.channel = SPI_CHANNEL_1 THEN SPI1 ELSE SPI2]
    /\ pc' = "txe"
    /\ UNCHANGED <<Spi_JobStatus, Spi_SequenceStatus, lastCall>>
    /\ UNCHANGED <<Spi_Status, Spi_Jobs, CR1_SPE, hwLog, pre>>
    /\ UNCHANGED <<dioVars, memo, linVars, initSince>>

(* Mutant of Sync_Dispatch: a job on an uninitialized channel fails. *)
Sync_Dispatch_ChecksChannel ==
    /\ pc = "dispatch" /\ run.mode = "Sync"
    /\ IF run.channel \in Channels /\ Spi_Status[run.channel] = SPI_UNINIT
       THEN Sync_JobFailed
       ELSE IF run.channel = SPI_CHANNEL_1
       THEN /\ run' = [run EXCEPT !.unit = SPI1]
            /\ pc' = "txe"
            /\ UNCHANGED <<Spi_JobStatus, Spi_SequenceStatus, lastCall>>
       ELSE IF run.channel = SPI_CHANNEL_2
       THEN /\ run' = [run EXCEPT !.unit = SPI2]
            /\ pc' = "txe"
            /\ UNCHANGED <<Spi_JobStatus, Spi_SequenceStatus, lastCall>>
       ELSE Sync_JobFailed
    /\ UNCHANGED <<Spi_Status, Spi_Jobs, CR1_SPE, hwLog, pre>>
    /\ UNCHANGED <<dioVars, memo, linVars, initSince>>

(* if (channel == SPI_CHANNEL_1) / else if (channel == SPI_CHANNEL_2) / else *)
Sync_Dispatch ==
    /\ pc = "dispatch" /\ run.mode = "Sync"
    /\ IF run.channel = SPI_CHANNEL_1
       THEN /\ run' = [run EXCEPT !.unit = SPI1]
            /\ pc' = "txe"
            /\ UNCHANGED <<Spi_JobStatus, Spi_SequenceStatus, lastCall>>
       ELSE IF run.channel = SPI_CHANNEL_2
       THEN /\ run' = [run EXCEPT !.unit = SPI2]
            /\ pc' = "txe"
            /\ UNCHANGED <<Spi_JobStatus, Spi_SequenceStatus, lastCall>>
       ELSE Sync_JobFailed
    /\ UNCHANGED <<Spi_Status, Spi_Jobs, CR1_SPE, hwLog, pre>>
    /\ UNCHANGED <<dioVars, memo, linVars, initSince>>

(* Mutant of Sync_PollTXE: one read of the flag, no loop. *)
Sync_PollTXE_NoWait ==
    /\ pc = "txe" /\ run.mode = "Sync"
    /\ \E f \in FlagStatus :
          /\ hwLog' = AppendPoll(hwLog,
                         HwCall("SPI_I2S_GetFlagStatus", run.unit, "TXE", -1, f))
          /\ pc' = "send"
    /\ UNCHANGED <<Spi_Status, Spi_SequenceStatus, Spi_JobStatus, Spi_Jobs, CR1_SPE,
                   run, lastCall, pre>>
    /\ UNCHANGED <<dioVars, memo, linVars, initSince>>

(* while (SPI_I2S_GetFlagStatus(SPIx, SPI_I2S_FLAG_TXE) == RESET); one poll *)
Sync_PollTXE ==
    /\ pc = "txe" /\ run.mode = "Sync"
    /\ \E f \in FlagStatus :
          /\ hwLog' = AppendPoll(hwLog,
                         HwCall("SPI_I2S_GetFlagStatus", run.unit, "TXE", -1, f))
          /\ pc' = IF f = RESET THEN "txe" ELSE "send"
    /\ UNCHANGED <<Spi_Status, Spi_SequenceStatus, Spi_JobStatus, Spi_Jobs, CR1_SPE,
                   run, lastCall, pre>>
    /\ UNCHANGED <<dioVars, memo, linVars, initSince>>

(* Mutant of Sync_Send: the channel is marked busy while it transfers. *)
Sync_Send_SetsBusy ==
    /\ pc = "send" /\ run.mode = "Sync"
    /\ hwLog' = Append(hwLog, HwCall("SPI_I2S_SendData", run.unit, "-",
                                     Spi_Jobs[run.currentJob].DataBuffer, "void"))
    /\ pc' = "rxne"
    /\ Spi_Status' = [Spi_Status EXCEPT ![run.channel] = SPI_BUSY]
    /\ UNCHANGED <<Spi_SequenceStatus, Spi_JobStatus, Spi_Jobs, CR1_SPE,
                   run, lastCall, pre>>
    /\ UNCHANGED <<dioVars, memo, linVars, initSince>>

(* SPI_I2S_SendData(SPIx, *(JobConfig->DataBuffer)) *)
Sync_Send ==
    /\ pc = "send" /\ run.mode = "Sync"
    /\ hwLog' = Append(hwLog, HwCall("SPI_I2S_SendData", run.unit, "-",
                                     Spi_Jobs[run.currentJob].DataBuffer, "void"))
    /\ pc' = "rxne"
    /\ UNCHANGED <<Spi_Status, Spi_SequenceStatus, Spi_JobStatus, Spi_Jobs, CR1_SPE,
                   run, lastCall, pre>>
    /\ UNCHANGED <<dioVars, memo, linVars, initSince>>

(* Mutant of Sync_TransferOk: the test is inverted. *)
Sync_TransferOk_Inverted(f) == f = RESET

(* SPI_I2S_GetFlagStatus(SPIx, SPI_I2S_FLAG_RXNE) != RESET *)
Sync_TransferOk(f) == f # RESET

(* The receive-ready check right after the send, and its two branches *)
Sync_CheckRXNE ==
    /\ pc = "rxne" /\ run.mode = "Sync"
    /\ \E f \in FlagStatus :
          /\ hwLog' = Append(hwLog,
                         HwCall("SPI_I2S_GetFlagStatus", run.unit, "RXNE", -1, f))
          /\ IF Sync_TransferOk(f) THEN Sync_JobOk ELSE Sync_JobFailed
    /\ UNCHANGED <<Spi_Status, Spi_Jobs, CR1_SPE, pre>>
    /\ UNCHANGED <<dioVars, memo, linVars, initSince>>

----------------------------------------------------------------------------
(* Spi_AsyncTransmit, src/Spi/Spi.h 1032-1108 *)

(* Mutant of Async_Guard: the initialization check is missing. *)
Async_Guard_NoInitCheck(Sequence) ==
    Sequence >= SPI_MAX_CHANNEL

(* The two guards before the first status write *)
Async_Guard(Sequence) ==
    \/ Spi_Status[0] = SPI_UNINIT /\ Spi_Status[1] = SPI_UNINIT
    \/ Sequence >= SPI_MAX_CHANNEL

(* Entry: guards, Spi_SequenceStatus[Sequence] = SPI_SEQ_PENDING, jobIndex = 0 *)
Spi_AsyncTransmit(Sequence) ==
    /\ pc = "idle"
    /\ pre' = Snapshot
    /\ hwLog' = <<>>
    /\ IF Async_Guard(Sequence)
       THEN /\ lastCall' = [op |-> "Spi_AsyncTransmit", arg |-> Sequence, ret |-> E_NOT_OK]
            /\ UNCHANGED <<Spi_SequenceStatus, pc, run>>
       ELSE /\ Spi_SequenceStatus' =
                   [Spi_SequenceStatus EXCEPT ![Sequence] = SPI_SEQ_PENDING]
            /\ run' = [NoRun EXCEPT !.mode = "Async", !.Sequence = Sequence,
                                    !.checked = {<<"Sequence", "SPI_MAX_CHANNEL">>}]
            /\ pc' = "loop"
            /\ lastCall' = [op |-> "Spi_AsyncTransmit", arg |-> Sequence, ret |-> "running"]
    /\ UNCHANGED <<Spi_Status, Spi_JobStatus, Spi_Jobs, CR1_SPE>>
    /\ UNCHANGED <<dioVars, memo, linVars, initSince>>

(* Loop head: jobIndex < JobCount, read the job's configuration and set    *)
(* Spi_JobStatus[currentJob] = SPI_JOB_PENDING; after the last job set the *)
(* sequence SPI_SEQ_OK and return E_OK.                                    *)
Async_Loop ==
    /\ pc = "loop" /\ run.mode = "Async"
    /\ LET SequenceConfig == Spi_Sequences[run.Sequence] IN
       IF run.jobIndex < SequenceConfig.JobCount
       THEN LET currentJob == SequenceConfig.Jobs[run.jobIndex]
                channel == Spi_Jobs[currentJob].Channel
            IN /\ Spi_JobStatus' = [Spi_JobStatus EXCEPT ![currentJob] = SPI_JOB_PENDING]
               /\ run' = [run EXCEPT !.currentJob = currentJob, !.channel = channel,
                                    !.checked = @ \cup {<<"jobIndex", "JobCount">>}]
               /\ pc' = "dispatch"
               /\ UNCHANGED <<Spi_SequenceStatus, lastCall>>
       ELSE /\ Spi_SequenceStatus' =
                   [Spi_SequenceStatus EXCEPT ![run.Sequence] = SPI_SEQ_OK]
            /\ lastCall' = [lastCall EXCEPT !.ret = E_OK]
            /\ pc' = "idle"
            /\ UNCHANGED <<Spi_JobStatus, run>>
    /\ UNCHANGED <<Spi_Status, Spi_Jobs, CR1_SPE, hwLog, pre>>
    /\ UNCHANGED <<dioVars, memo, linVars, initSince>>

(* Failure of the current job: both status writes and return E_NOT_OK *)
Async_JobFailed ==
    /\ Spi_JobStatus' = [Spi_JobStatus EXCEPT ![run.currentJob] = SPI_JOB_FAILED]
    /\ Spi_SequenceStatus' = [Spi_SequenceStatus EXCEPT ![run.Sequence] = SPI_SEQ_FAILED]
    /\ lastCall' = [lastCall EXCEPT !.ret = E_NOT_OK]
    /\ pc' = "idle"
    /\ UNCHANGED run

(* Success of the current job: SPI_JOB_OK and the loop's jobIndex++ *)
Async_JobOk ==
    /\ Spi_JobStatus' = [Spi_JobStatus EXCEPT ![run.currentJob] = SPI_JOB_OK]
    /\ run' = [run EXCEPT !.jobIndex = (run.jobIndex + 1) % 256]
    /\ pc' = "loop"
    /\ UNCHANGED <<Spi_SequenceStatus, lastCall>>

(* if (channel == SPI_CHANNEL_1) / else if (channel == SPI_CHANNEL_2) / else *)
Async_Dispatch ==
    /\ pc = "dispatch" /\ run.mode = "Async"
    /\ IF run.channel = SPI_CHANNEL_1
       THEN /\ run' = [run EXCEPT !.unit = SPI1]
            /\ pc' = "txe"
            /\ UNCHANGED <<Spi_JobStatus, Spi_SequenceStatus, lastCall>>
       ELSE IF run.channel = SPI_CHANNEL_2
       THEN /\ run' = [run EXCEPT !.unit = SPI2]
            /\ pc' = "txe"
            /\ UNCHANGED <<Spi_JobStatus, Spi_SequenceStatus, lastCall>>
       ELSE Async_JobFailed
    /\ UNCHANGED <<Spi_Status, Spi_Jobs, CR1_SPE, hwLog, pre>>
    /\ UNCHANGED <<dioVars, memo, linVars, initSince>>

(* while (SPI_I2S_GetFlagStatus(SPIx, SPI_I2S_FLAG_TXE) == RESET); one poll *)
Async_PollTXE ==
    /\ pc = "txe" /\ run.mode = "Async"
    /\ \E f \in FlagStatus :
          /\ hwLog' = AppendPoll(hwLog,
                         HwCall("SPI_I2S_GetFlagStatus", run.unit, "TXE", -1, f))
          /\ pc' = IF f = RESET THEN "txe" ELSE "send"
    /\ UNCHANGED <<Spi_Status, Spi_SequenceStatus, Spi_JobStatus, Spi_Jobs, CR1_SPE,
                   run, lastCall, pre>>
    /\ UNCHANGED <<dioVars, memo, linVars, initSince>>

(* SPI_I2S_SendData(SPIx, *(JobConfig->DataBuffer)) *)
Async_Send ==
    /\ pc = "send" /\ run.mode = "Async"
    /\ hwLog' = Append(hwLog, HwCall("SPI_I2S_SendData", run.unit, "-",
                                     Spi_Jobs[run.currentJob].DataBuffer, "void"))
    /\ pc' = "rxne"
    /\ UNCHANGED <<Spi_Status, Spi_SequenceStatus, Spi_JobStatus, Spi_Jobs, CR1_SPE,
                   run, lastCall, pre>>
    /\ UNCHANGED <<dioVars, memo, linVars, initSince>>

(* Mutant of Async_TransferOk: the test is inverted. *)
Async_TransferOk_Inverted(f) == f = RESET

(* SPI_I2S_GetFlagStatus(SPIx, SPI_I2S_FLAG_RXNE) != RESET *)
Async_TransferOk(f) == f # RESET

(* The receive-ready check right after the send, and its two branches *)
Async_CheckRXNE ==
    /\ pc = "rxne" /\ run.mode = "Async"
    /\ \E f \in FlagStatus :
          /\ hwLog' = Append(hwLog,
                         HwCall("SPI_I2S_GetFlagStatus", run.unit, "RXNE", -1, f))
          /\ IF Async_TransferOk(f) THEN Async_JobOk ELSE Async_JobFailed
    /\ UNCHANGED <<Spi_Status, Spi_Jobs, CR1_SPE, pre>>
    /\ UNCHANGED <<dioVars, memo, linVars, initSince>>

----------------------------------------------------------------------------
(* Dio_WriteChannelGroup, src/Dio/Dio.c 257-289 *)

(* switch (ChannelGroupIdPtr->port): case 0, 1, 2, default: return *)
Dio_Port(port) ==
    IF port = 0 THEN GPIOA
    ELSE IF port = 1 THEN GPIOB
    ELSE IF port = 2 THEN GPIOC
    ELSE "return"

(* Level << ChannelGroupIdPtr->offset.  Level (uint16) is promoted to int. *)
(* A shift by the width of int or more is undefined: a barrel shifter that *)
(* takes the full count gives 0, one that takes the count modulo the width *)
(* gives Level << (offset % 32); both are outcomes.  Below the width the    *)
(* bits that leave the 32-bit register are lost (a 1 that reaches the sign *)
(* bit or leaves the word is an overflow of int; no property below rests   *)
(* on the value taken in that case).                                       *)
ShiftLeft(Level, offset) ==
    IF offset < IntBits
    THEN {{b + offset : b \in Level} \cap Word(IntBits)}
    ELSE {{}, {b + (offset % IntBits) : b \in Level} \cap Word(IntBits)}

(* Mutant of Dio_GroupValue: the group's bits are not cleared first. *)
Dio_GroupValue_NoClear(portValue, mask, shifted) ==
    portValue \cup (shifted \cap mask)

(* portValue &= ~mask; portValue |= (shifted & mask) *)
Dio_GroupValue(portValue, mask, shifted) ==
    (portValue \ mask) \cup (shifted \cap mask)

Dio_WriteChannelGroup ==
    /\ dio.pc = "call"
    /\ LET ChannelGroupIdPtr == dio.ChannelGroup
           GPIOx == Dio_Port(ChannelGroupIdPtr.port)
       IN IF GPIOx = "return"
          THEN /\ dio' = [dio EXCEPT !.pc = "done"]
               /\ UNCHANGED GPIO_ODR
          ELSE \E shifted \in ShiftLeft(dio.Level, ChannelGroupIdPtr.offset) :
                  LET portValue == Dio_GroupValue(GPIO_ODR[GPIOx],
                                                  ChannelGroupIdPtr.mask, shifted)
                      PortVal == portValue \cap Word(PortBits)
                  IN /\ GPIO_ODR' = [GPIO_ODR EXCEPT ![GPIOx] = PortVal]
                     /\ dio' = [dio EXCEPT
                                   !.pc = "done",
                                   !.writes = Append(@, [call |-> "GPIO_Write",
                                                         port |-> GPIOx,
                                                         PortVal |-> PortVal])]
    /\ UNCHANGED <<spiVars, memo, linVars>>

----------------------------------------------------------------------------
(* Spi_WriteIB, src/Spi/Spi.h 987-1020, and Spi_ReadIB, 1119-1149.  Neither *)
(* reads or writes a status array; `run` holds the unit they selected.     *)

DataBufferPtrs == {NULL, [data |-> 165]}

IBArg(Channel, ptr) == [Channel |-> Channel, ptr |-> ptr]

(* Mutant of IB_Branch: an unknown channel falls through to SPI2. *)
IB_Branch_ElseSecondUnit(Channel, ptr) ==
    IF ptr = NULL THEN "return"
    ELSE IF Channel = SPI_CHANNEL_1 THEN SPI1
    ELSE SPI2

(* The NULL check and the channel selection shared by both functions *)
IB_Branch(Channel, ptr) ==
    IF ptr = NULL THEN "return"
    ELSE IF Channel = SPI_CHANNEL_1 THEN SPI1
    ELSE IF Channel = SPI_CHANNEL_2 THEN SPI2
    ELSE "return"

(* Entry of Spi_WriteIB up to the first wait *)
Spi_WriteIB(Channel, DataBufferPtr) ==
    /\ pc = "idle"
    /\ pre' = Snapshot
    /\ hwLog' = <<>>
    /\ IF IB_Branch(Channel, DataBufferPtr) = "return"
       THEN /\ lastCall' = [op |-> "Spi_WriteIB", arg |-> IBArg(Channel, DataBufferPtr),
                            ret |-> E_NOT_OK]
            /\ UNCHANGED <<pc, run>>
       ELSE /\ lastCall' = [op |-> "Spi_WriteIB", arg |-> IBArg(Channel, DataBufferPtr),
                            ret |-> "running"]
            /\ run' = [NoRun EXCEPT !.mode = "WriteIB", !.channel = Channel,
                                    !.unit = IB_Branch(Channel, DataBufferPtr)]
            /\ pc' = "wib_txe"
    /\ UNCHANGED <<Spi_Status, Spi_SequenceStatus, Spi_JobStatus, Spi_Jobs, CR1_SPE>>
    /\ UNCHANGED <<dioVars, memo, linVars, initSince>>

(* while (SPI_I2S_GetFlagStatus(SPIx, SPI_I2S_FLAG_TXE) == RESET); one poll *)
WriteIB_PollTXE ==
    /\ pc = "wib_txe"
    /\ \E f \in FlagStatus :
          /\ hwLog' = AppendPoll(hwLog,
                         HwCall("SPI_I2S_GetFlagStatus", run.unit, "TXE", -1, f))
          /\ pc' = IF f = RESET THEN "wib_txe" ELSE "wib_send"
    /\ UNCHANGED <<Spi_Status, Spi_SequenceStatus, Spi_JobStatus, Spi_Jobs, CR1_SPE,
                   run, lastCall, pre>>
    /\ UNCHANGED <<dioVars, memo, linVars, initSince>>

(* SPI_I2S_SendData(SPIx, *DataBufferPtr) *)
WriteIB_Send ==
    /\ pc = "wib_send"
    /\ hwLog' = Append(hwLog, HwCall("SPI_I2S_SendData", run.unit, "-",
                                     lastCall.arg.ptr.data, "void"))
    /\ pc' = "wib_bsy"
    /\ UNCHANGED <<Spi_Status, Spi_SequenceStatus, Spi_JobStatus, Spi_Jobs, CR1_SPE,
                   run, lastCall, pre>>
    /\ UNCHANGED <<dioVars, memo, linVars, initSince>>

(* while (SPI_I2S_GetFlagStatus(SPIx, SPI_I2S_FLAG_BSY) == SET); one poll, *)
(* then return E_OK                                                        *)
WriteIB_PollBSY ==
    /\ pc = "wib_bsy"
    /\ \E f \in FlagStatus :
          /\ hwLog' = AppendPoll(hwLog,
                         HwCall("SPI_I2S_GetFlagStatus", run.unit, "BSY", -1, f))
          /\ IF f = SET
             THEN UNCHANGED <<pc, lastCall>>
             ELSE /\ pc' = "idle"
                  /\ lastCall' = [lastCall EXCEPT !.ret = E_OK]
    /\ UNCHANGED <<Spi_Status, Spi_SequenceStatus, Spi_JobStatus, Spi_Jobs, CR1_SPE,
                   run, pre>>
    /\ UNCHANGED <<dioVars, memo, linVars, initSince>>

(* Entry of Spi_ReadIB up to the wait *)
Spi_ReadIB(Channel, DataBufferPointer) ==
    /\ pc = "idle"
    /\ pre' = Snapshot
    /\ hwLog' = <<>>
    /\ IF IB_Branch(Channel, DataBufferPointer) = "return"
       THEN /\ lastCall' = [op |-> "Spi_ReadIB", arg |-> IBArg(Channel, DataBufferPointer),
                            ret |-> E_NOT_OK]
            /\ UNCHANGED <<pc, run>>
       ELSE /\ lastCall' = [op |-> "Spi_ReadIB", arg |-> IBArg(Channel, DataBufferPointer),
                            ret |-> "running"]
            /\ run' = [NoRun EXCEPT !.mode = "ReadIB", !.channel = Channel,
                                    !.unit = IB_Branch(Channel, DataBufferPointer)]
            /\ pc' = "rib_rxne"
    /\ UNCHANGED <<Spi_Status, Spi_SequenceStatus, Spi_JobStatus, Spi_Jobs, CR1_SPE>>
    /\ UNCHANGED <<dioVars, memo, linVars, initSince>>

(* while (SPI_I2S_GetFlagStatus(SPIx, SPI_I2S_FLAG_RXNE) == RESET); one poll *)
ReadIB_PollRXNE ==
    /\ pc = "rib_rxne"
    /\ \E f \in FlagStatus :
          /\ hwLog' = AppendPoll(hwLog,
                         HwCall("SPI_I2S_GetFlagStatus", run.unit, "RXNE", -1, f))
          /\ pc' = IF f = RESET THEN "rib_rxne" ELSE "rib_recv"
    /\ UNCHANGED <<Spi_Status, Spi_SequenceStatus, Spi_JobStatus, Spi_Jobs, CR1_SPE,
                   run, lastCall, pre>>
    /\ UNCHANGED <<dioVars, memo, linVars, initSince>>

(* *DataBufferPointer = SPI_I2S_ReceiveData(SPIx); return E_OK.  The byte  *)
(* goes to the caller's buffer, which is no state of the driver.           *)
ReadIB_Receive ==
    /\ pc = "rib_recv"
    /\ hwLog' = Append(hwLog, HwCall("SPI_I2S_ReceiveData", run.unit, "-", -1, "DR"))
    /\ pc' = "idle"
    /\ lastCall' = [lastCall EXCEPT !.ret = E_OK]
    /\ UNCHANGED <<Spi_Status, Spi_SequenceStatus, Spi_JobStatus, Spi_Jobs, CR1_SPE,
                   run, pre>>
    /\ UNCHANGED <<dioVars, memo, linVars, initSince>>

----------------------------------------------------------------------------
(* LIN driver, src/MCAL/Lin/Lin.c.  Every call works on USART1; the waits  *)
(* on the transmission-complete flag are taken poll by poll.               *)

UsartCall(call, data, ret) == [call |-> call, data |-> data, ret |-> ret]

(* Entry of a Lin call: its name and argument, an empty list of calls *)
LinCall(op, Channel) ==
    [lin EXCEPT !.op = op, !.Channel = Channel, !.ret = "running", !.log = <<>>,
                !.pre = LinChannelState, !.preLast = lin.last]

(* while (USART_GetFlagStatus(USART1, USART_FLAG_TC) == RESET); one poll *)
LinPollTC(l, f) ==
    [l EXCEPT !.log = AppendPoll(@, UsartCall("USART_GetFlagStatus", "TC", f))]

(* Mutant of Lin_Wakeup_Guard: the channel state is not looked at. *)
Lin_Wakeup_Guard_NoStateCheck(Channel) ==
    Channel >= MAX_LIN_CHANNELS

(* The two early returns of Lin_Wakeup *)
Lin_Wakeup_Guard(Channel) ==
    \/ Channel >= MAX_LIN_CHANNELS
    \/ LinChannelState[Channel] # LIN_CH_SLEEP

(* Lin_Wakeup up to the wait: the guards, USART_SendData(USART1, 0x80) *)
Lin_Wakeup(Channel) ==
    /\ lin.pc = "idle"
    /\ IF Lin_Wakeup_Guard(Channel)
       THEN lin' = [LinCall("Lin_Wakeup", Channel) EXCEPT
                       !.ret = E_NOT_OK,
                       !.last = IF Channel \in LinChannels
                                THEN [@ EXCEPT ![Channel] = "Lin_Wakeup"]
                                ELSE @]
       ELSE lin' = [LinCall("Lin_Wakeup", Channel) EXCEPT
                       !.pc = "wakeup_tc",
                       !.log = <<UsartCall("USART_SendData", 128, "void")>>]
    /\ UNCHANGED <<LinChannelState, spiVars, dioVars, memo>>

(* The wait of Lin_Wakeup, then LinChannelState[Channel] =                 *)
(* LIN_CH_OPERATIONAL and return E_OK                                      *)
Lin_Wakeup_WaitTC ==
    /\ lin.pc = "wakeup_tc"
    /\ \E f \in FlagStatus :
          IF f = RESET
          THEN /\ lin' = LinPollTC(lin, f)
               /\ UNCHANGED LinChannelState
          ELSE /\ LinChannelState' =
                      [LinChannelState EXCEPT ![lin.Channel] = LIN_CH_OPERATIONAL]
               /\ lin' = [LinPollTC(lin, f) EXCEPT
                             !.pc = "idle", !.ret = E_OK,
                             !.last = [@ EXCEPT ![lin.Channel] = "Lin_Wakeup"]]
    /\ UNCHANGED <<spiVars, dioVars, memo>>

(* Lin_GoToSleep up to the first wait: the guard, USART_SendBreak(USART1) *)
Lin_GoToSleep(Channel) ==
    /\ lin.pc = "idle"
    /\ IF Channel >= MAX_LIN_CHANNELS
       THEN lin' = [LinCall("Lin_GoToSleep", Channel) EXCEPT !.ret = E_NOT_OK]
       ELSE lin' = [LinCall("Lin_GoToSleep", Channel) EXCEPT
                       !.pc = "sleep_tc1",
                       !.log = <<UsartCall("USART_SendBreak", "-", "void")>>]
    /\ UNCHANGED <<LinChannelState, spiVars, dioVars, memo>>

(* First wait of Lin_GoToSleep, then USART_SendData(USART1, LIN_GO_TO_SLEEP) *)
Lin_GoToSleep_WaitBreak ==
    /\ lin.pc = "sleep_tc1"
    /\ \E f \in FlagStatus :
          IF f = RESET
          THEN lin' = LinPollTC(lin, f)
          ELSE lin' = [LinPollTC(lin, f) EXCEPT
                          !.pc = "sleep_tc2",
                          !.log = Append(@, UsartCall("USART_SendData",
                                                      "LIN_GO_TO_SLEEP", "void"))]
    /\ UNCHANGED <<LinChannelState, spiVars, dioVars, memo>>

(* Second wait of Lin_GoToSleep, then LinChannelState[Channel] =           *)
(* LIN_CH_SLEEP and return E_OK                                            *)
Lin_GoToSleep_WaitTC ==
    /\ lin.pc = "sleep_tc2"
    /\ \E f \in FlagStatus :
          IF f = RESET
          THEN /\ lin' = LinPollTC(lin, f)
               /\ UNCHANGED LinChannelState
          ELSE /\ LinChannelState' =
                      [LinChannelState EXCEPT ![lin.Channel] = LIN_CH_SLEEP]
               /\ lin' = [LinPollTC(lin, f) EXCEPT
                             !.pc = "idle", !.ret = E_OK,
                             !.last = [@ EXCEPT ![lin.Channel] = "Lin_GoToSleep"]]
    /\ UNCHANGED <<spiVars, dioVars, memo>>

(* Lin_GoToSleepInternal up to the wait: the guard, USART_SendBreak(USART1) *)
Lin_GoToSleepInternal(Channel) ==
    /\ lin.pc = "idle"
    /\ IF Channel >= MAX_LIN_CHANNELS
       THEN lin' = [LinCall("Lin_GoToSleepInternal", Channel) EXCEPT !.ret = E_NOT_OK]
       ELSE lin' = [LinCall("Lin_GoToSleepInternal", Channel) EXCEPT
                       !.pc = "sleepint_tc",
                       !.log = <<UsartCall("USART_SendBreak", "-", "void")>>]
    /\ UNCHANGED <<LinChannelState, spiVars, dioVars, memo>>

(* The wait of Lin_GoToSleepInternal, then LinChannelState[Channel] =      *)
(* LIN_CH_SLEEP and return E_OK (the wake-up detection branch is empty)    *)
Lin_GoToSleepInternal_WaitTC ==
    /\ lin.pc = "sleepint_tc"
    /\ \E f \in FlagStatus :
          IF f = RESET
          THEN /\ lin' = LinPollTC(lin, f)
               /\ UNCHANGED LinChannelState
          ELSE /\ LinChannelState' =
                      [LinChannelState EXCEPT ![lin.Channel] = LIN_CH_SLEEP]
               /\ lin' = [LinPollTC(lin, f) EXCEPT
                             !.pc = "idle", !.ret = E_OK,
                             !.last = [@ EXCEPT ![lin.Channel] = "Lin_GoToSleepInternal"]]
    /\ UNCHANGED <<spiVars, dioVars, memo>>

(* Lin_CheckWakeup: the guard, then the wake-up flag of USART1->SR, which  *)
(* is cleared when it was set                                              *)
Lin_CheckWakeup(Channel) ==
    /\ lin.pc = "idle"
    /\ IF Channel >= MAX_LIN_CHANNELS
       THEN lin' = [LinCall("Lin_CheckWakeup", Channel) EXCEPT !.ret = E_NOT_OK]
       ELSE \E WU \in BOOLEAN :
               lin' = [LinCall("Lin_CheckWakeup", Channel) EXCEPT
                          !.ret = IF WU THEN E_OK ELSE E_NOT_OK,
                          !.log = IF WU THEN <<UsartCall("USART1->SR &= ~USART_SR_WU",
                                                         "-", "void")>>
                                        ELSE <<>>]
    /\ UNCHANGED <<LinChannelState, spiVars, dioVars, memo>>

(* Lin_GetStatus: LIN_NOT_OK for a NULL pointer or an invalid Channel,     *)
(* else the channel's state                                                *)
Lin_GetStatus(Channel, Lin_SduPtr) ==
    /\ lin.pc = "idle"
    /\ lin' = [LinCall("Lin_GetStatus", Channel) EXCEPT
                  !.ret = IF Lin_SduPtr = NULL THEN LIN_NOT_OK
                          ELSE IF Channel >= MAX_LIN_CHANNELS THEN LIN_NOT_OK
                          ELSE LinChannelState[Channel]]
    /\ UNCHANGED <<LinChannelState, spiVars, dioVars, memo>>

----------------------------------------------------------------------------
Next ==
    \/ \E ConfigPtr \in ConfigPtrs : Spi_Init(ConfigPtr)
    \/ Spi_DeInit
    \/ Spi_GetStatus
    \/ \E Job \in Ids : Spi_GetJobResult(Job)
    \/ \E Sequence \in Ids : Spi_GetSequenceResult(Sequence)
    \/ \E Sequence \in Ids : Spi_SyncTransmit(Sequence)
    \/ Sync_Loop
    \/ Sync_Dispatch
    \/ Sync_PollTXE
    \/ Sync_Send
    \/ Sync_CheckRXNE
    \/ \E Sequence \in Ids : Spi_AsyncTransmit(Sequence)
    \/ Async_Loop
    \/ Async_Dispatch
    \/ Async_PollTXE
    \/ Async_Send
    \/ Async_CheckRXNE

Spec == Init /\ [][Next]_vars

(* The processor keeps executing a run that is not waiting: every step of a *)
(* run other than the poll of the transmit-ready flag is taken once it is   *)
(* enabled.  Nothing is assumed of the flag: a behaviour may stay at the    *)
(* poll forever, reading RESET.                                             *)
SpecLive ==
    /\ Init
    /\ [][Next]_vars
    /\ WF_vars(Sync_Loop) /\ WF_vars(Sync_Dispatch)
    /\ WF_vars(Sync_Send) /\ WF_vars(Sync_CheckRXNE)
    /\ WF_vars(Async_Loop) /\ WF_vars(Async_Dispatch)
    /\ WF_vars(Async_Send) /\ WF_vars(Async_CheckRXNE)

(* The whole interface of the SPI driver: the operations of Next, which    *)
(* are the ones that read or write a status array, and the two             *)
(* internal-buffer transfers.                                              *)
NextIB ==
    \/ Next
    \/ \E Channel \in Ids, DataBufferPtr \in DataBufferPtrs :
          Spi_WriteIB(Channel, DataBufferPtr)
    \/ WriteIB_PollTXE
    \/ WriteIB_Send
    \/ WriteIB_PollBSY
    \/ \E Channel \in Ids, DataBufferPointer \in DataBufferPtrs :
          Spi_ReadIB(Channel, DataBufferPointer)
    \/ ReadIB_PollRXNE
    \/ ReadIB_Receive

SpecIB == Init /\ [][NextIB]_vars

(* The status accessors and Init/DeInit are total on the value range of    *)
(* Spi_StatusType: InitStatus starts from every content of the channel     *)
(* status array, SPI_BUSY included, which no function of the driver writes. *)
InitStatus ==
    /\ Spi_Status \in [Channels -> Spi_StatusType]
    /\ Spi_SequenceStatus = [s \in Sequences |-> SPI_SEQ_PENDING]
    /\ Spi_JobStatus = [j \in Jobs |-> SPI_JOB_PENDING]
    /\ Spi_Jobs = Spi_Jobs_Table
    /\ CR1_SPE = [u \in HwUnits |-> FALSE]
    /\ pc = "idle"
    /\ run = NoRun
    /\ hwLog = <<>>
    /\ lastCall = [op |-> "none", arg |-> 0, ret |-> "void"]
    /\ pre = Snapshot
    /\ GPIO_ODR = [p \in DioPorts |-> {}]
    /\ dio = NoDioCall
    /\ memo = NoMemo
    /\ initSince = (\E c \in Channels : Spi_Status[c] # SPI_UNINIT)
    /\ LinChannelState = [c \in LinChannels |-> LIN_CH_SLEEP]
    /\ lin = NoLinCall

SpecStatus == InitStatus /\ [][Next]_vars

(* Spi_Jobs is a writable table of the configuration file, its Channel     *)
(* field a uint8: InitCfg starts from every table whose jobs name a        *)
(* channel identifier up to MaxCfgChannel, those that no branch of the run *)
(* loop knows included.                                                    *)
MaxCfgChannel == 2

InitCfg ==
    /\ Spi_Status = [c \in Channels |-> SPI_UNINIT]
    /\ Spi_SequenceStatus = [s \in Sequences |-> SPI_SEQ_PENDING]
    /\ Spi_JobStatus = [j \in Jobs |-> SPI_JOB_PENDING]
    /\ \E ch \in [Jobs -> 0 .. MaxCfgChannel] :
          Spi_Jobs = [j \in Jobs |->
                         [Spi_Jobs_Table[j] EXCEPT !.Channel = ch[j]]]
    /\ CR1_SPE = [u \in HwUnits |-> FALSE]
    /\ pc = "idle"
    /\ run = NoRun
    /\ hwLog = <<>>
    /\ lastCall = [op |-> "none", arg |-> 0, ret |-> "void"]
    /\ pre = Snapshot
    /\ GPIO_ODR = [p \in DioPorts |-> {}]
    /\ dio = NoDioCall
    /\ memo = NoMemo
    /\ initSince = FALSE
    /\ LinChannelState = [c \in LinChannels |-> LIN_CH_SLEEP]
    /\ lin = NoLinCall

SpecCfg == InitCfg /\ [][Next]_vars

(* The two run functions are compared by running them from the same start. *)
(* RunView is the state of a run without the name of the function that was *)
(* called.  Remember puts the view of a synchronous run aside, at any      *)
(* point of the run or after its return, and takes the status cells back   *)
(* to what they were when that run was entered (pre); NextModes then calls *)
(* Spi_AsyncTransmit with the same Sequence and lets it run.               *)
RunView ==
    [Status |-> Spi_Status, Job |-> Spi_JobStatus, Seq |-> Spi_SequenceStatus,
     SPE |-> CR1_SPE, pc |-> pc,
     Sequence |-> run.Sequence, jobIndex |-> run.jobIndex,
     currentJob |-> run.currentJob, channel |-> run.channel, unit |-> run.unit,
     checked |-> run.checked,
     hwLog |-> hwLog, arg |-> lastCall.arg, ret |-> lastCall.ret, pre |-> pre]

Remember ==
    /\ memo.phase = "none"
    /\ lastCall.op = "Spi_SyncTransmit"
    /\ memo' = [phase |-> "replay", to |-> RunView]
    /\ Spi_Status' = pre.Status
    /\ Spi_JobStatus' = pre.Job
    /\ Spi_SequenceStatus' = pre.Seq
    /\ CR1_SPE' = pre.SPE
    /\ pc' = "idle"
    /\ UNCHANGED <<Spi_Jobs, run, hwLog, lastCall, pre, initSince, dioVars, linVars>>

NextModes ==
    \/ memo.phase = "none" /\ Next
    \/ Remember
    \/ /\ memo.phase = "replay" /\ lastCall.op = "Spi_SyncTransmit"
       /\ Spi_AsyncTransmit(memo.to.arg)
    \/ memo.phase = "replay" /\ Async_Loop
    \/ memo.phase = "replay" /\ Async_Dispatch
    \/ memo.phase = "replay" /\ Async_PollTXE
    \/ memo.phase = "replay" /\ Async_Send
    \/ memo.phase = "replay" /\ Async_CheckRXNE

SpecModes == InitCfg /\ [][NextModes]_vars

(* Dio_WriteChannelGroup is a function of its arguments and the output     *)
(* register: InitDio draws them, the one action applies the function.      *)
InitDio ==
    /\ Spi_Status = [c \in Channels |-> SPI_UNINIT]
    /\ Spi_SequenceStatus = [s \in Sequences |-> SPI_SEQ_PENDING]
    /\ Spi_JobStatus = [j \in Jobs |-> SPI_JOB_PENDING]
    /\ Spi_Jobs = Spi_Jobs_Table
    /\ CR1_SPE = [u \in HwUnits |-> FALSE]
    /\ pc = "idle"
    /\ run = NoRun
    /\ hwLog = <<>>
    /\ lastCall = [op |-> "none", arg |-> 0, ret |-> "void"]
    /\ pre = Snapshot
    /\ GPIO_ODR \in [DioPorts -> DioPortValues]
    /\ \E mask \in DioMasks, offset \in DioOffsets, port \in DioPortIds,
          Level \in DioLevels :
          dio = [pc |-> "call",
                 ChannelGroup |-> [mask |-> mask, offset |-> offset, port |-> port],
                 Level |-> Level,
                 pre |-> GPIO_ODR,
                 writes |-> <<>>]
    /\ memo = NoMemo
    /\ initSince = FALSE
    /\ LinChannelState = [c \in LinChannels |-> LIN_CH_SLEEP]
    /\ lin = NoLinCall

DioNext == Dio_WriteChannelGroup

SpecDio == InitDio /\ [][DioNext]_vars

(* The LIN driver on its own: it shares no variable with the SPI driver. *)
LinNext ==
    \/ \E Channel \in LinIds : Lin_Wakeup(Channel)
    \/ Lin_Wakeup_WaitTC
    \/ \E Channel \in LinIds : Lin_GoToSleep(Channel)
    \/ Lin_GoToSleep_WaitBreak
    \/ Lin_GoToSleep_WaitTC
    \/ \E Channel \in LinIds : Lin_GoToSleepInternal(Channel)
    \/ Lin_GoToSleepInternal_WaitTC
    \/ \E Channel \in LinIds : Lin_CheckWakeup(Channel)
    \/ \E Channel \in LinIds, Lin_SduPtr \in LinSduPtrs :
          Lin_GetStatus(Channel, Lin_SduPtr)

SpecLin == Init /\ [][LinNext]_vars

----------------------------------------------------------------------------
(* Vocabulary of the properties *)

RunOps == {"Spi_SyncTransmit", "Spi_AsyncTransmit"}
QueryOps == {"Spi_GetStatus", "Spi_GetJobResult", "Spi_GetSequenceResult"}

(* The last call was a sequence run and it has returned *)
RunReturned == pc = "idle" /\ lastCall.op \in RunOps

(* The run guard as the specification words it, on the state at entry *)
GuardPassed ==
    /\ \E c \in Channels : pre.Status[c] # SPI_UNINIT
    /\ lastCall.arg < SPI_MAX_SEQUENCE

IsRxRead(e) == e.call = "SPI_I2S_GetFlagStatus" /\ e.flag = "RXNE"
IsSend(e) == e.call = "SPI_I2S_SendData"
RxReads == SelectSeq(hwLog, IsRxRead)
Sends == SelectSeq(hwLog, IsSend)

(* The job at position p (counted from 0) of sequence S, and S's length *)
JobAt(S, p) == Spi_Sequences[S].Jobs[p]
JobCountOf(S) == Spi_Sequences[S].JobCount

(* Positions 0..k-1 reported receive-ready and position k did not *)
FailedAt(k) ==
    /\ Len(RxReads) >= k + 1
    /\ \A i \in 1 .. k : RxReads[i].ret = SET
    /\ RxReads[k + 1].ret = RESET

StatusCellsUnchanged ==
    /\ Spi_Status = pre.Status
    /\ Spi_JobStatus = pre.Job
    /\ Spi_SequenceStatus = pre.Seq

----------------------------------------------------------------------------
(* C1: when a synchronous run of a configured sequence passes the guard    *)
(* and every receive-ready read of the run returns SET, then on return the *)
(* sequence is SPI_SEQ_OK, every job of the sequence was exchanged and is  *)
(* SPI_JOB_OK, and the run returns E_OK.                                   *)
C1_AllJobsSucceed ==
    ( /\ pc = "idle" /\ lastCall.op = "Spi_SyncTransmit"
      /\ GuardPassed
      /\ \A i \in 1 .. Len(RxReads) : RxReads[i].ret = SET )
    => /\ Spi_SequenceStatus[lastCall.arg] = SPI_SEQ_OK
       /\ Len(RxReads) = JobCountOf(lastCall.arg)
       /\ \A p \in 0 .. (JobCountOf(lastCall.arg) - 1) :
             Spi_JobStatus[JobAt(lastCall.arg, p)] = SPI_JOB_OK
       /\ lastCall.ret = E_OK

(* A successful synchronous run of sequence 0 that follows a failed one *)
C1_Witness ==
    /\ pc = "idle" /\ lastCall.op = "Spi_SyncTransmit" /\ lastCall.arg = 0
    /\ pre.Seq[0] = SPI_SEQ_FAILED
    /\ Len(RxReads) = 2
    /\ \A i \in 1 .. Len(RxReads) : RxReads[i].ret = SET
    /\ lastCall.ret = E_OK

(* C2: when the jobs at positions 1..k of a run succeed and the job at     *)
(* position k+1 does not report receive-ready, then on return that job is  *)
(* SPI_JOB_FAILED, the sequence is SPI_SEQ_FAILED, the jobs at positions   *)
(* 1..k are SPI_JOB_OK and the run returns E_NOT_OK.                       *)
C2_FailFastResult ==
    (RunReturned /\ GuardPassed) =>
       \A k \in 0 .. (JobCountOf(lastCall.arg) - 1) :
          FailedAt(k) =>
             /\ Spi_JobStatus[JobAt(lastCall.arg, k)] = SPI_JOB_FAILED
             /\ Spi_SequenceStatus[lastCall.arg] = SPI_SEQ_FAILED
             /\ \A p \in 0 .. (k - 1) :
                   Spi_JobStatus[JobAt(lastCall.arg, p)] = SPI_JOB_OK
             /\ lastCall.ret = E_NOT_OK

(* The second job of sequence 0 fails after the first one succeeded *)
C2_Witness ==
    /\ RunReturned /\ GuardPassed /\ lastCall.arg = 0
    /\ FailedAt(1)
    /\ Spi_JobStatus[0] = SPI_JOB_OK /\ Spi_JobStatus[1] = SPI_JOB_FAILED

(* C3: when the job at position k+1 of a run fails, exactly k+1 bytes were *)
(* sent and k+1 receive-ready reads made in that run (nothing for the jobs *)
(* at positions k+2..n), and the status cell of each of those later jobs   *)
(* has the value it had before the run.                                    *)
C3_FailFastFrame ==
    (RunReturned /\ GuardPassed) =>
       \A k \in 0 .. (JobCountOf(lastCall.arg) - 1) :
          FailedAt(k) =>
             /\ Len(Sends) = k + 1
             /\ Len(RxReads) = k + 1
             /\ \A p \in (k + 1) .. (JobCountOf(lastCall.arg) - 1) :
                   Spi_JobStatus[JobAt(lastCall.arg, p)] =
                       pre.Job[JobAt(lastCall.arg, p)]

(* The first job of sequence 0 fails; the second job keeps the SPI_JOB_OK  *)
(* of an earlier run instead of being reset to SPI_JOB_PENDING.            *)
C3_Witness ==
    /\ RunReturned /\ GuardPassed /\ lastCall.arg = 0
    /\ FailedAt(0)
    /\ pre.Job[1] = SPI_JOB_OK /\ Spi_JobStatus[1] = SPI_JOB_OK
    /\ Spi_JobStatus[0] = SPI_JOB_FAILED

(* C4: a run in either mode entered while every channel is SPI_UNINIT, or  *)
(* with a sequence identifier >= the number of sequences, returns E_NOT_OK *)
(* at once, makes no hardware call and changes no status cell.             *)
C4_RunGuard ==
    ( /\ lastCall.op \in RunOps
      /\ \/ \A c \in Channels : pre.Status[c] = SPI_UNINIT
         \/ lastCall.arg >= SPI_MAX_SEQUENCE )
    => /\ pc = "idle"
       /\ lastCall.ret = E_NOT_OK
       /\ hwLog = <<>>
       /\ StatusCellsUnchanged

(* A run before any Spi_Init, the cells still holding an earlier result *)
C4_Witness ==
    /\ lastCall.op = "Spi_SyncTransmit" /\ lastCall.arg = 0
    /\ \A c \in Channels : pre.Status[c] = SPI_UNINIT
    /\ pre.Seq[0] = SPI_SEQ_FAILED
    /\ lastCall.ret = E_NOT_OK

(* C5: Spi_GetStatus returns SPI_BUSY if any channel is busy, otherwise    *)
(* SPI_IDLE if any channel is not SPI_UNINIT, otherwise SPI_UNINIT, for    *)
(* every content of the channel status array.                              *)
C5_StatusPrecedence ==
    lastCall.op = "Spi_GetStatus" =>
       /\ (\E c \in Channels : pre.Status[c] = SPI_BUSY) => lastCall.ret = SPI_BUSY
       /\ ( /\ \A c \in Channels : pre.Status[c] # SPI_BUSY
            /\ \E c \in Channels : pre.Status[c] # SPI_UNINIT ) => lastCall.ret = SPI_IDLE
       /\ (\A c \in Channels : pre.Status[c] = SPI_UNINIT) => lastCall.ret = SPI_UNINIT

(* Statuses {Idle, Busy}: the busy channel decides *)
C5_Witness ==
    /\ lastCall.op = "Spi_GetStatus"
    /\ pre.Status[0] = SPI_IDLE /\ pre.Status[1] = SPI_BUSY
    /\ lastCall.ret = SPI_BUSY

(* C6: Spi_GetJobResult and Spi_GetSequenceResult return the failed result *)
(* for every identifier >= the size of their table, and for an identifier  *)
(* in range the content of that entity's status cell.                      *)
C6_QueryBoundary ==
    /\ lastCall.op = "Spi_GetJobResult" =>
          lastCall.ret = IF lastCall.arg >= SPI_MAX_JOB THEN SPI_JOB_FAILED
                                                        ELSE pre.Job[lastCall.arg]
    /\ lastCall.op = "Spi_GetSequenceResult" =>
          lastCall.ret = IF lastCall.arg >= SPI_MAX_SEQUENCE THEN SPI_SEQ_FAILED
                                                             ELSE pre.Seq[lastCall.arg]

(* The first identifier out of range, asked while no job has failed *)
C6_Witness ==
    /\ lastCall.op = "Spi_GetJobResult" /\ lastCall.arg = SPI_MAX_JOB
    /\ \A j \in Jobs : Spi_JobStatus[j] = SPI_JOB_OK
    /\ lastCall.ret = SPI_JOB_FAILED

(* C7: a status accessor changes no channel, job or sequence status cell,  *)
(* and an accessor called again with the same argument right after itself  *)
(* returns the same value.                                                 *)
C7_QueryIdempotent ==
    [][ /\ lastCall'.op \in QueryOps =>
              UNCHANGED <<Spi_Status, Spi_JobStatus, Spi_SequenceStatus>>
        /\ ( /\ lastCall.op \in QueryOps
             /\ lastCall'.op = lastCall.op
             /\ lastCall'.arg = lastCall.arg ) => lastCall'.ret = lastCall.ret ]_vars

(* A query of a job whose cell holds a result of a run *)
C7_Witness ==
    /\ lastCall.op = "Spi_GetJobResult" /\ lastCall.arg = 1
    /\ lastCall.ret = SPI_JOB_FAILED
    /\ Spi_JobStatus[1] = SPI_JOB_FAILED

(* C8: Spi_Init with a configuration naming a configured channel c sets    *)
(* the status of c to SPI_IDLE whatever it was, leaves the status of every *)
(* other channel alone, and Spi_GetStatus is then not SPI_UNINIT.          *)
C8_InitSetsIdle ==
    ( /\ lastCall.op = "Spi_Init"
      /\ lastCall.arg # NULL
      /\ lastCall.arg.Channel \in Channels )
    => /\ Spi_Status[lastCall.arg.Channel] = SPI_IDLE
       /\ \A d \in Channels \ {lastCall.arg.Channel} : Spi_Status[d] = pre.Status[d]
       /\ Spi_GetStatus_Ret # SPI_UNINIT

(* Init of the second channel while the first one is still uninitialized *)
C8_Witness ==
    /\ lastCall.op = "Spi_Init"
    /\ lastCall.arg = [Channel |-> SPI_CHANNEL_2]
    /\ pre.Status[SPI_CHANNEL_2] = SPI_UNINIT
    /\ Spi_Status[SPI_CHANNEL_1] = SPI_UNINIT
    /\ Spi_Status[SPI_CHANNEL_2] = SPI_IDLE

(* C9: Spi_Init with a NULL configuration or with a channel that is not a  *)
(* configured one changes no status cell, makes no hardware call and       *)
(* enables no unit.                                                        *)
C9_InitRejects ==
    ( /\ lastCall.op = "Spi_Init"
      /\ \/ lastCall.arg = NULL
         \/ lastCall.arg.Channel \notin Channels )
    => /\ StatusCellsUnchanged
       /\ hwLog = <<>>
       /\ CR1_SPE = pre.SPE

(* Init with the first channel identifier out of range, nothing enabled *)
C9_Witness ==
    /\ lastCall.op = "Spi_Init"
    /\ lastCall.arg = [Channel |-> SPI_MAX_CHANNEL]
    /\ \A u \in HwUnits : ~CR1_SPE[u]
    /\ \A c \in Channels : Spi_Status[c] = SPI_UNINIT

(* C10: after Spi_DeInit, whether it returned E_OK or E_NOT_OK, every      *)
(* channel is SPI_UNINIT and Spi_GetStatus is SPI_UNINIT, whatever the     *)
(* channel statuses were before the call.                                  *)
C10_DeInitReleasesAll ==
    lastCall.op = "Spi_DeInit" =>
       /\ lastCall.ret \in {E_OK, E_NOT_OK}
       /\ \A c \in Channels : Spi_Status[c] = SPI_UNINIT
       /\ Spi_GetStatus_Ret = SPI_UNINIT

(* A failed DeInit entered with one channel idle and the other busy *)
C10_Witness ==
    /\ lastCall.op = "Spi_DeInit" /\ lastCall.ret = E_NOT_OK
    /\ pre.Status[SPI_CHANNEL_1] = SPI_IDLE
    /\ pre.Status[SPI_CHANNEL_2] = SPI_BUSY

----------------------------------------------------------------------------
IsDisable(e) == e.call = "SPI_Cmd" /\ e.flag = "DISABLE"

(* C11: Spi_DeInit returns E_OK exactly when, after the disable request to *)
(* both units, both units read back disabled; otherwise it returns         *)
(* E_NOT_OK; in both cases the disable request went to every unit.         *)
C11_DeInitOutcome ==
    lastCall.op = "Spi_DeInit" =>
       /\ lastCall.ret = E_OK <=> \A u \in HwUnits : ~CR1_SPE[u]
       /\ lastCall.ret = E_NOT_OK <=> \E u \in HwUnits : CR1_SPE[u]
       /\ \A u \in HwUnits :
             \E i \in 1 .. Len(hwLog) : IsDisable(hwLog[i]) /\ hwLog[i].unit = u

(* A DeInit that fails because the second unit alone still reads enabled *)
C11_Witness ==
    /\ lastCall.op = "Spi_DeInit" /\ lastCall.ret = E_NOT_OK
    /\ ~CR1_SPE[SPI1] /\ CR1_SPE[SPI2]
    /\ pre.SPE[SPI1]

(* The jobs of sequence S that are not SPI_JOB_OK *)
JobsNotOk(S) ==
    {p \in 0 .. (JobCountOf(S) - 1) : Spi_JobStatus[JobAt(S, p)] # SPI_JOB_OK}

(* C12: in every state, also in the middle of a run, a sequence that is    *)
(* SPI_SEQ_OK has only SPI_JOB_OK jobs; and a run that returns with a job  *)
(* of its sequence not SPI_JOB_OK leaves the sequence SPI_SEQ_FAILED.      *)
C12_NoPartialSuccess ==
    /\ \A S \in Sequences :
          Spi_SequenceStatus[S] = SPI_SEQ_OK => JobsNotOk(S) = {}
    /\ (RunReturned /\ GuardPassed /\ JobsNotOk(lastCall.arg) # {})
          => Spi_SequenceStatus[lastCall.arg] = SPI_SEQ_FAILED

(* An asynchronous run of sequence 0 that ended Ok after a failed one *)
C12_Witness ==
    /\ pc = "idle" /\ lastCall.op = "Spi_AsyncTransmit" /\ lastCall.arg = 0
    /\ pre.Seq[0] = SPI_SEQ_FAILED /\ pre.Job[1] = SPI_JOB_FAILED
    /\ Spi_SequenceStatus[0] = SPI_SEQ_OK
    /\ JobsNotOk(0) = {}

ReachedPositions ==
    {p \in 0 .. (JobCountOf(lastCall.arg) - 1) : p <= run.jobIndex}

----------------------------------------------------------------------------
IsFlagRead(e, flag) == e.call = "SPI_I2S_GetFlagStatus" /\ e.flag = flag

(* C15 as stated: in the log of a returned run every SPI_I2S_SendData is   *)
(* preceded by the transmit-ready wait on its unit and followed, in this   *)
(* order and on the same unit, by the wait on the busy flag, the           *)
(* receive-ready read and the read of the received byte.                   *)
C15_Original ==
    (RunReturned /\ GuardPassed) =>
       \A i \in 1 .. Len(hwLog) :
          IsSend(hwLog[i]) =>
             /\ i > 1
             /\ IsFlagRead(hwLog[i - 1], "TXE")
             /\ hwLog[i - 1].ret = SET
             /\ hwLog[i - 1].unit = hwLog[i].unit
             /\ i + 3 <= Len(hwLog)
             /\ IsFlagRead(hwLog[i + 1], "BSY")
             /\ IsFlagRead(hwLog[i + 2], "RXNE")
             /\ hwLog[i + 3].call = "SPI_I2S_ReceiveData"
             /\ \A k \in 1 .. 3 : hwLog[i + k].unit = hwLog[i].unit

(* The table accesses of the run loop: Spi_Sequences[Sequence] from the    *)
(* loop head on, Spi_Jobs[currentJob] and Spi_JobStatus[currentJob] once   *)
(* the job has been read from the sequence's list.                         *)
IndexesSequenceTable == pc \in {"loop", "dispatch", "txe", "send", "rxne"}
IndexesJobTable == pc \in {"dispatch", "txe", "send", "rxne"}

(* C16 as stated: the run has compared Sequence with SPI_MAX_SEQUENCE      *)
(* before it indexes Spi_Sequences, and the job identifier read from the   *)
(* list with SPI_MAX_JOB before it indexes Spi_Jobs and Spi_JobStatus.     *)
C16_Original ==
    /\ IndexesSequenceTable =>
          <<"Sequence", "SPI_MAX_SEQUENCE">> \in run.checked
    /\ IndexesJobTable =>
          <<"currentJob", "SPI_MAX_JOB">> \in run.checked

(* The unit a channel is bound to *)
UnitOfChannel(c) == IF c = SPI_CHANNEL_1 THEN SPI1 ELSE SPI2

(* The reached positions whose job names a configured channel *)
ExchangedPositions ==
    {p \in ReachedPositions : Spi_Jobs[JobAt(lastCall.arg, p)].Channel \in Channels}

(* C18: while the exchange of a job is under way the job is                *)
(* SPI_JOB_PENDING; a returned run has sent exactly one byte per job it    *)
(* reached, the job's byte on the unit of the job's channel, each send     *)
(* directly followed by the receive-ready read on that unit, and each such *)
(* job is SPI_JOB_OK if that read returned SET and SPI_JOB_FAILED if not.  *)
C18_PerJobStep ==
    /\ pc \in {"dispatch", "txe", "send", "rxne"} =>
          Spi_JobStatus[run.currentJob] = SPI_JOB_PENDING
    /\ (RunReturned /\ GuardPassed) =>
          /\ Len(Sends) = Cardinality(ExchangedPositions)
          /\ Len(RxReads) = Len(Sends)
          /\ \A i \in 1 .. Len(hwLog) :
                IsSend(hwLog[i]) =>
                   /\ i < Len(hwLog)
                   /\ IsRxRead(hwLog[i + 1])
                   /\ hwLog[i + 1].unit = hwLog[i].unit
          /\ \A p \in ExchangedPositions :
                LET job == JobAt(lastCall.arg, p) IN
                   /\ Sends[p + 1].unit = UnitOfChannel(Spi_Jobs[job].Channel)
                   /\ Sends[p + 1].data = Spi_Jobs[job].DataBuffer
                   /\ Spi_JobStatus[job] =
                         IF RxReads[p + 1].ret = SET THEN SPI_JOB_OK
                                                     ELSE SPI_JOB_FAILED

(* A run of sequence 0 whose first exchange succeeded on SPI1 and whose    *)
(* second failed on SPI2, both jobs having been SPI_JOB_OK before          *)
C18_Witness ==
    /\ RunReturned /\ GuardPassed /\ lastCall.arg = 0
    /\ pre.Job[0] = SPI_JOB_OK /\ pre.Job[1] = SPI_JOB_OK
    /\ Len(Sends) = 2
    /\ Sends[1].unit = SPI1 /\ Sends[2].unit = SPI2
    /\ RxReads[1].ret = SET /\ RxReads[2].ret = RESET
    /\ Spi_JobStatus[1] = SPI_JOB_FAILED

(* The returned run stopped at a job that names no configured channel *)
StoppedAtInvalidChannel ==
    /\ RunReturned /\ GuardPassed
    /\ run.jobIndex < JobCountOf(lastCall.arg)
    /\ Spi_Jobs[JobAt(lastCall.arg, run.jobIndex)].Channel \notin Channels

(* C19: a job whose channel is neither SPI_CHANNEL_1 nor SPI_CHANNEL_2 is  *)
(* SPI_JOB_PENDING when the run looks at its channel and SPI_JOB_FAILED at *)
(* return; the run made no hardware call for it (the log ends with the     *)
(* receive-ready read of the job before), its sequence is SPI_SEQ_FAILED   *)
(* and the run returns E_NOT_OK.                                           *)
C19_InvalidChannelJob ==
    /\ (pc = "dispatch" /\ run.channel \notin Channels) =>
          Spi_JobStatus[run.currentJob] = SPI_JOB_PENDING
    /\ (pc \in {"txe", "send", "rxne"}) => run.channel \in Channels
    /\ StoppedAtInvalidChannel =>
          /\ Spi_JobStatus[JobAt(lastCall.arg, run.jobIndex)] = SPI_JOB_FAILED
          /\ Spi_SequenceStatus[lastCall.arg] = SPI_SEQ_FAILED
          /\ lastCall.ret = E_NOT_OK
          /\ Len(Sends) = run.jobIndex
          /\ Len(RxReads) = run.jobIndex
          /\ hwLog # <<>> => IsRxRead(hwLog[Len(hwLog)])

(* Sequence 0 with job 1 on an unknown channel: job 0 exchanged on SPI1,   *)
(* job 1 failed without a hardware call                                    *)
C19_Witness ==
    /\ StoppedAtInvalidChannel /\ lastCall.arg = 0
    /\ run.jobIndex = 1
    /\ Spi_Jobs[1].Channel = 2
    /\ pre.Job[0] = SPI_JOB_OK /\ pre.Job[1] = SPI_JOB_FAILED
    /\ Spi_JobStatus[1] = SPI_JOB_FAILED
    /\ Len(hwLog) >= 2 /\ Len(Sends) = 1

(* C20: a step of the run loop, from the loop head to the job's result,    *)
(* leaves every channel status and the status of every job other than the *)
(* job in work as they were.                                               *)
C20_JobStepFrame ==
    [][ pc # "idle" =>
           /\ Spi_Status' = Spi_Status
           /\ \A j \in Jobs :
                 j # run'.currentJob => Spi_JobStatus'[j] = Spi_JobStatus[j] ]_vars

(* The step of job 0 has changed job 0 from failed to ok while job 1 still *)
(* holds the SPI_JOB_FAILED it had at entry                                *)
C20_Witness ==
    /\ pc = "loop" /\ run.jobIndex = 1 /\ run.Sequence = 0
    /\ pre.Job[0] = SPI_JOB_FAILED /\ Spi_JobStatus[0] = SPI_JOB_OK
    /\ pre.Job[1] = SPI_JOB_FAILED /\ Spi_JobStatus[1] = SPI_JOB_FAILED
    /\ Spi_Status = pre.Status

----------------------------------------------------------------------------
(* Level * 2^offset as a number, of any size *)
LevelShifted == {b + dio.ChannelGroup.offset : b \in dio.Level}

(* The effect of a returned Dio_WriteChannelGroup on the output registers *)
DioGroupEffect ==
    LET GPIOx == Dio_Port(dio.ChannelGroup.port) IN
    IF GPIOx \in DioPorts
    THEN /\ \A b \in Word(PortBits) :
               IF b \in dio.ChannelGroup.mask
               THEN b \in GPIO_ODR[GPIOx] <=> b \in LevelShifted
               ELSE b \in GPIO_ODR[GPIOx] <=> b \in dio.pre[GPIOx]
         /\ \A p \in DioPorts \ {GPIOx} : GPIO_ODR[p] = dio.pre[p]
    ELSE /\ GPIO_ODR = dio.pre
         /\ dio.writes = <<>>

ShiftDefined ==
    /\ dio.ChannelGroup.offset < IntBits
    /\ \A b \in dio.Level : b + dio.ChannelGroup.offset < IntBits - 1

----------------------------------------------------------------------------
IsAnyFlagRead(e) == e.call = "SPI_I2S_GetFlagStatus"

(* The values the hardware returned to the flag reads of a log, in order *)
Responses(log) ==
    LET reads == SelectSeq(log, IsAnyFlagRead)
    IN [i \in 1 .. Len(reads) |-> reads[i].ret]

IsPrefix(a, b) ==
    /\ Len(a) <= Len(b)
    /\ \A i \in 1 .. Len(a) : a[i] = b[i]

(* The asynchronous run of the same Sequence from the same start has come  *)
(* to the position of the remembered synchronous run on the same hardware  *)
(* responses; of two returned runs one may not have read further in the    *)
(* same stream of responses than the other.                                *)
SamePointOfRun ==
    /\ memo.phase = "replay"
    /\ lastCall.op = "Spi_AsyncTransmit"
    /\ lastCall.arg = memo.to.arg /\ pre = memo.to.pre
    /\ pc = memo.to.pc
    /\ LET a == Responses(hwLog)
           s == Responses(memo.to.hwLog)
       IN \/ a = s
          \/ pc = "idle" /\ (IsPrefix(a, s) \/ IsPrefix(s, a))

----------------------------------------------------------------------------
(* Lin_Wakeup, under SpecLin *)

LinSleepOps == {"Lin_GoToSleep", "Lin_GoToSleepInternal"}

(* The channel of the Lin call is valid and was asleep at its entry *)
LinWasAsleep ==
    /\ lin.Channel < MAX_LIN_CHANNELS
    /\ lin.pre[lin.Channel] = LIN_CH_SLEEP

(* C26: Lin_Wakeup returns E_OK only for a valid Channel whose state was   *)
(* LIN_CH_SLEEP, and then has sent the wake-up byte and set the state to   *)
(* LIN_CH_OPERATIONAL (and nothing else); otherwise it returns E_NOT_OK at *)
(* once, has sent nothing and has left every channel state as it was.  A   *)
(* Lin_Wakeup whose Channel saw a Lin_Wakeup as its previous state call    *)
(* returns E_NOT_OK; one that follows a go-to-sleep returns E_OK whenever  *)
(* it returns.                                                             *)
C26_Wakeup ==
    lin.op = "Lin_Wakeup" =>
      /\ ~LinWasAsleep =>
            /\ lin.pc = "idle"
            /\ lin.ret = E_NOT_OK
            /\ lin.log = <<>>
            /\ LinChannelState = lin.pre
      /\ LinWasAsleep =>
            /\ lin.log # <<>>
            /\ lin.log[1] = UsartCall("USART_SendData", 128, "void")
            /\ \A i \in 2 .. Len(lin.log) : lin.log[i].call = "USART_GetFlagStatus"
            /\ IF lin.pc = "idle"
               THEN /\ lin.ret = E_OK
                    /\ LinChannelState =
                          [lin.pre EXCEPT ![lin.Channel] = LIN_CH_OPERATIONAL]
               ELSE /\ lin.pc = "wakeup_tc"
                    /\ LinChannelState = lin.pre
      /\ (lin.pc = "idle" /\ lin.Channel < MAX_LIN_CHANNELS) =>
            /\ lin.preLast[lin.Channel] = "Lin_Wakeup" => lin.ret = E_NOT_OK
            /\ lin.preLast[lin.Channel] \in LinSleepOps => lin.ret = E_OK

(* A wake-up that succeeded after a go-to-sleep which itself followed a    *)
(* wake-up of the same channel.                                            *)
C26_Witness ==
    /\ lin.op = "Lin_Wakeup"
    /\ lin.pc = "idle"
    /\ lin.ret = E_OK
    /\ lin.Channel = 1
    /\ lin.preLast[1] = "Lin_GoToSleep"
    /\ LinChannelState[1] = LIN_CH_OPERATIONAL
    /\ LinChannelState[0] = LIN_CH_OPERATIONAL

----------------------------------------------------------------------------
(* Values that are declared but never produced, under SpecIB *)

----------------------------------------------------------------------------
(* The order inside a run, under SpecIB *)

RunPositions == {"loop", "dispatch", "txe", "send", "rxne"}

(* A run of either mode has passed its guard and has not returned *)
InRun == pc \in RunPositions

(* The jobs of sequence S, by position *)
PositionsOf(S) == 0 .. (JobCountOf(S) - 1)
JobsOf(S) == {JobAt(S, p) : p \in PositionsOf(S)}

(* C21: at every point inside a run the sequence is SPI_SEQ_PENDING; the   *)
(* jobs at the positions before jobIndex are SPI_JOB_OK; past the loop     *)
(* head the job at jobIndex is the current one and is SPI_JOB_PENDING;     *)
(* every job at a later position, and every job outside the sequence, has  *)
(* the result it had when the run started; and the bytes sent so far are   *)
(* those of the jobs in list order, one per position.                      *)
C21_StrictOrder ==
    InRun =>
      LET S == run.Sequence
          started == IF pc = "loop" THEN run.jobIndex ELSE run.jobIndex + 1
      IN /\ Spi_SequenceStatus[S] = SPI_SEQ_PENDING
         /\ run.jobIndex <= JobCountOf(S)
         /\ \A p \in PositionsOf(S) :
               p < run.jobIndex => Spi_JobStatus[JobAt(S, p)] = SPI_JOB_OK
         /\ pc # "loop" =>
               /\ run.jobIndex < JobCountOf(S)
               /\ run.currentJob = JobAt(S, run.jobIndex)
               /\ Spi_JobStatus[run.currentJob] = SPI_JOB_PENDING
         /\ \A p \in PositionsOf(S) :
               p >= started => Spi_JobStatus[JobAt(S, p)] = pre.Job[JobAt(S, p)]
         /\ \A j \in Jobs \ JobsOf(S) : Spi_JobStatus[j] = pre.Job[j]
         /\ Len(Sends) = (IF pc = "rxne" THEN run.jobIndex + 1 ELSE run.jobIndex)
         /\ \A i \in 1 .. Len(Sends) :
               Sends[i].data = Spi_Jobs[JobAt(S, i - 1)].DataBuffer

(* A synchronous run over results left Failed by an earlier run: the first *)
(* job is Ok again, the second is being exchanged.                         *)
C21_Witness ==
    /\ pc = "rxne"
    /\ run.mode = "Sync"
    /\ run.jobIndex = 1
    /\ pre.Seq[run.Sequence] = SPI_SEQ_FAILED
    /\ pre.Job[0] = SPI_JOB_FAILED
    /\ pre.Job[1] = SPI_JOB_OK
    /\ Spi_JobStatus[0] = SPI_JOB_OK
    /\ Spi_JobStatus[1] = SPI_JOB_PENDING

(* The three ways a sequence status changes in one step *)
SeqTransition(s) ==
    \/ Spi_SequenceStatus'[s] = Spi_SequenceStatus[s]
    \/ /\ Spi_SequenceStatus'[s] = SPI_SEQ_PENDING
       /\ pc = "idle" /\ pc' = "loop" /\ run'.Sequence = s
    \/ /\ Spi_SequenceStatus[s] = SPI_SEQ_PENDING
       /\ Spi_SequenceStatus'[s] \in {SPI_SEQ_OK, SPI_SEQ_FAILED}
       /\ InRun /\ pc' = "idle" /\ run.Sequence = s

(* C23: no sequence status is ever SPI_SEQ_CANCELED and no job result is   *)
(* ever SPI_JOB_QUEUED; a sequence status changes only to SPI_SEQ_PENDING, *)
(* at the start of a run of that sequence, or from SPI_SEQ_PENDING to      *)
(* SPI_SEQ_OK or SPI_SEQ_FAILED, at the return of a run of that sequence.  *)
C23_UnreachableResults ==
    /\ [](/\ \A s \in Sequences : Spi_SequenceStatus[s] # SPI_SEQ_CANCELED
          /\ \A j \in Jobs : Spi_JobStatus[j] # SPI_JOB_QUEUED)
    /\ [][\A s \in Sequences : SeqTransition(s)]_vars

(* A sequence that was Failed has been run again and is Ok. *)
C23_Witness ==
    /\ RunReturned
    /\ GuardPassed
    /\ pre.Seq[lastCall.arg] = SPI_SEQ_FAILED
    /\ Spi_SequenceStatus[lastCall.arg] = SPI_SEQ_OK
    /\ Len(Sends) = 2

----------------------------------------------------------------------------
(* Termination of a run, under SpecLive *)

(* The run that was in progress has returned with a final sequence status *)
RunEnded ==
    /\ pc = "idle"
    /\ lastCall.op \in RunOps
    /\ lastCall.ret \in {E_OK, E_NOT_OK}
    /\ Spi_SequenceStatus[run.Sequence] \in {SPI_SEQ_OK, SPI_SEQ_FAILED}

(* The last hardware call of the log is a transmit-ready read that gave SET *)
LastReadIsTxeSet(log) ==
    /\ Len(log) > 0
    /\ log[Len(log)].call = "SPI_I2S_GetFlagStatus"
    /\ log[Len(log)].flag = "TXE"
    /\ log[Len(log)].ret = SET

(* C24: if no wait for the transmit-ready flag lasts forever, every run    *)
(* that has passed the guard returns, and at its return the sequence is    *)
(* SPI_SEQ_OK or SPI_SEQ_FAILED.  A run leaves the wait only by a read of  *)
(* the flag that gives SET, and while it waits it has not returned and the *)
(* sequence and the current job are Pending: with a flag that stays RESET  *)
(* that is so forever.                                                     *)
C24_Termination ==
    /\ ([]<>(pc # "txe")) => (InRun ~> RunEnded)
    /\ [][(InRun /\ pc' = "idle") => RunEnded']_vars
    /\ [][(pc = "txe" /\ pc' # "txe") => (pc' = "send" /\ LastReadIsTxeSet(hwLog'))]_vars
    /\ [](pc = "txe" =>
            /\ lastCall.ret = "running"
            /\ Spi_SequenceStatus[run.Sequence] = SPI_SEQ_PENDING
            /\ Spi_JobStatus[run.currentJob] = SPI_JOB_PENDING)

(* A run has returned Ok although the second job first found the flag of   *)
(* its unit RESET.                                                         *)
C24_Witness ==
    /\ RunEnded
    /\ lastCall.ret = E_OK
    /\ \E i \in 1 .. Len(hwLog) :
          /\ hwLog[i] = HwCall("SPI_I2S_GetFlagStatus", SPI2, "TXE", -1, RESET)
          /\ i > 1

----------------------------------------------------------------------------
(* Return value and sequence status, under SpecIB *)

(* Of the jobs of the sequence, the run has set exactly the one at         *)
(* jobIndex to SPI_JOB_FAILED: the earlier ones are SPI_JOB_OK, the later  *)
(* ones are as they were before the run.                                   *)
OneJobFailedByRun ==
    LET S == run.Sequence IN
    /\ run.jobIndex < JobCountOf(S)
    /\ \A p \in PositionsOf(S) :
          /\ p < run.jobIndex => Spi_JobStatus[JobAt(S, p)] = SPI_JOB_OK
          /\ p = run.jobIndex => Spi_JobStatus[JobAt(S, p)] = SPI_JOB_FAILED
          /\ p > run.jobIndex => Spi_JobStatus[JobAt(S, p)] = pre.Job[JobAt(S, p)]

(* The claim as stated: for every run of an existing sequence, E_OK        *)
(* exactly when the sequence is SPI_SEQ_OK at the return.                  *)
C25_Original ==
    (RunReturned /\ lastCall.arg < SPI_MAX_SEQUENCE) =>
       /\ lastCall.ret = E_OK <=> Spi_SequenceStatus[lastCall.arg] = SPI_SEQ_OK
       /\ (GuardPassed /\ lastCall.ret = E_NOT_OK) =>
             /\ Spi_SequenceStatus[lastCall.arg] = SPI_SEQ_FAILED
             /\ OneJobFailedByRun

(* C25: a run that returns E_OK has passed the guard and leaves the        *)
(* sequence SPI_SEQ_OK; a run that has passed the guard returns E_OK       *)
(* exactly when the sequence is SPI_SEQ_OK at the return, and when it      *)
(* returns E_NOT_OK the sequence is SPI_SEQ_FAILED and exactly one job of  *)
(* the sequence has been set SPI_JOB_FAILED by it; a run rejected by the   *)
(* guard returns E_NOT_OK and leaves every status as it was, a sequence    *)
(* status of SPI_SEQ_OK included.                                          *)
C25_OutcomeAgrees ==
    RunReturned =>
       /\ lastCall.ret \in {E_OK, E_NOT_OK}
       /\ lastCall.ret = E_OK => GuardPassed
       /\ GuardPassed =>
             /\ lastCall.ret = E_OK <=> Spi_SequenceStatus[lastCall.arg] = SPI_SEQ_OK
             /\ lastCall.ret = E_NOT_OK =>
                   /\ Spi_SequenceStatus[lastCall.arg] = SPI_SEQ_FAILED
                   /\ OneJobFailedByRun
       /\ ~GuardPassed =>
             /\ lastCall.ret = E_NOT_OK
             /\ StatusCellsUnchanged

(* A run has failed at its second job. *)
C25_Witness ==
    /\ RunReturned
    /\ GuardPassed
    /\ lastCall.ret = E_NOT_OK
    /\ run.jobIndex = 1
    /\ Spi_JobStatus[0] = SPI_JOB_OK
    /\ Spi_JobStatus[1] = SPI_JOB_FAILED
    /\ Spi_SequenceStatus[lastCall.arg] = SPI_SEQ_FAILED

----------------------------------------------------------------------------
(* The guard of a run and the channels of its jobs, under SpecIB *)

(* A run call that the guard has turned away *)
RunRejected ==
    /\ pc = "idle"
    /\ lastCall.op \in RunOps
    /\ lastCall.ret = E_NOT_OK
    /\ hwLog = <<>>
    /\ StatusCellsUnchanged

(* The positions of the sequence the returned run has reached *)
ReachedByRun ==
    {p \in PositionsOf(run.Sequence) : p <= run.jobIndex}

(* C27: a run of an existing sequence is turned away exactly when every    *)
(* channel is SPI_UNINIT, whatever the channels of its jobs; once past the *)
(* guard, every job the run reaches is exchanged on the unit of its        *)
(* channel and ends SPI_JOB_OK exactly when the receive flag was set, the  *)
(* status of that channel playing no part.                                 *)
C27_ModuleWideGuard ==
    (RunReturned /\ lastCall.arg < SPI_MAX_SEQUENCE) =>
       /\ RunRejected <=> (\A c \in Channels : pre.Status[c] = SPI_UNINIT)
       /\ GuardPassed =>
             /\ Len(Sends) = Cardinality(ReachedByRun)
             /\ Len(RxReads) = Len(Sends)
             /\ \A p \in ReachedByRun :
                   LET job == JobAt(run.Sequence, p) IN
                   /\ Sends[p + 1].unit = UnitOfChannel(Spi_Jobs[job].Channel)
                   /\ Spi_JobStatus[job] = SPI_JOB_OK <=> RxReads[p + 1].ret = SET

(* Only channel 0 has been set up; the run has exchanged the job of        *)
(* channel 1 on SPI2, that job is Ok and so is the sequence.               *)
C27_Witness ==
    /\ RunReturned
    /\ lastCall.arg = 0
    /\ lastCall.ret = E_OK
    /\ pre.Status[0] = SPI_IDLE
    /\ pre.Status[1] = SPI_UNINIT
    /\ Spi_Status[1] = SPI_UNINIT
    /\ Len(Sends) = 2
    /\ Sends[2].unit = SPI2
    /\ Spi_JobStatus[1] = SPI_JOB_OK
    /\ Spi_SequenceStatus[0] = SPI_SEQ_OK

----------------------------------------------------------------------------
(* The sequence without jobs, under SpecIB *)

EmptySequence == 1

(* The claim as stated: every run of sequence 1 returns E_OK with the      *)
(* sequence SPI_SEQ_OK, without a hardware call or a changed job result.   *)
C28_Original ==
    (RunReturned /\ lastCall.arg = EmptySequence) =>
       /\ lastCall.ret = E_OK
       /\ Spi_SequenceStatus[EmptySequence] = SPI_SEQ_OK
       /\ hwLog = <<>>
       /\ Spi_JobStatus = pre.Job

(* C28: sequence 1 of the configuration table has a job count of zero.  A  *)
(* run of it that finds some channel initialized is inside the call only   *)
(* at the loop head, with the sequence SPI_SEQ_PENDING, and returns E_OK   *)
(* with the sequence SPI_SEQ_OK; it makes no hardware call and leaves      *)
(* every job result, every channel status and the other sequence's status  *)
(* as they were.  A run of it that finds every channel SPI_UNINIT returns  *)
(* E_NOT_OK and leaves its status as it was too.                           *)
C28_EmptySequence ==
    /\ JobCountOf(EmptySequence) = 0
    /\ (InRun /\ run.Sequence = EmptySequence) =>
          /\ pc = "loop"
          /\ run.jobIndex = 0
          /\ Spi_SequenceStatus[EmptySequence] = SPI_SEQ_PENDING
    /\ (RunReturned /\ lastCall.arg = EmptySequence /\ GuardPassed) =>
          /\ lastCall.ret = E_OK
          /\ Spi_SequenceStatus[EmptySequence] = SPI_SEQ_OK
    /\ (RunReturned /\ lastCall.arg = EmptySequence /\ ~GuardPassed) =>
          /\ lastCall.ret = E_NOT_OK
          /\ Spi_SequenceStatus[EmptySequence] = pre.Seq[EmptySequence]
    /\ (lastCall.op \in RunOps /\ lastCall.arg = EmptySequence) =>
          /\ hwLog = <<>>
          /\ Spi_JobStatus = pre.Job
          /\ Spi_Status = pre.Status
          /\ \A s \in Sequences \ {EmptySequence} : Spi_SequenceStatus[s] = pre.Seq[s]

(* A second run of sequence 1 has returned E_OK while the jobs keep the    *)
(* results of a failed run of sequence 0.                                  *)
C28_Witness ==
    /\ RunReturned
    /\ lastCall.arg = EmptySequence
    /\ lastCall.ret = E_OK
    /\ pre.Seq[EmptySequence] = SPI_SEQ_OK
    /\ Spi_SequenceStatus[EmptySequence] = SPI_SEQ_OK
    /\ Spi_JobStatus[0] = SPI_JOB_OK
    /\ Spi_JobStatus[1] = SPI_JOB_FAILED
    /\ Spi_SequenceStatus[0] = SPI_SEQ_FAILED

----------------------------------------------------------------------------
(* Spi_Init and Spi_DeInit and the results, under SpecIB *)

(* C29: after a Spi_Init or a Spi_DeInit call, whatever its argument and   *)
(* its return value, every job result and every sequence result is the     *)
(* one from before the call, and that is what the two result queries       *)
(* return.                                                                 *)
C29_ResultsSurvive ==
    lastCall.op \in {"Spi_Init", "Spi_DeInit"} =>
       /\ Spi_JobStatus = pre.Job
       /\ Spi_SequenceStatus = pre.Seq
       /\ \A j \in Jobs : Spi_GetJobResult_Ret(j) = pre.Job[j]
       /\ \A s \in Sequences : Spi_GetSequenceResult_Ret(s) = pre.Seq[s]

(* The module has been shut down and set up again after a run that failed  *)
(* at its second job: the results of that run are still there.             *)
C29_Witness ==
    /\ lastCall.op = "Spi_Init"
    /\ \A c \in Channels : pre.Status[c] = SPI_UNINIT
    /\ \E c \in Channels : Spi_Status[c] = SPI_IDLE
    /\ Spi_JobStatus[0] = SPI_JOB_OK
    /\ Spi_JobStatus[1] = SPI_JOB_FAILED
    /\ Spi_SequenceStatus[0] = SPI_SEQ_FAILED

----------------------------------------------------------------------------
(* Runs between Spi_DeInit and the next valid Spi_Init, under SpecIB.      *)
(* initSince says that a Spi_Init with a configuration it accepts has      *)
(* returned after the last Spi_DeInit (or, before any Spi_DeInit, at all). *)

(* C30: a run of either mode called while no valid Spi_Init has happened   *)
(* since the last Spi_DeInit returns E_NOT_OK at once, without a hardware  *)
(* call and with every status as before; a run of an existing sequence     *)
(* called after such a Spi_Init is not turned away.  So a run is past the  *)
(* guard only if a valid Spi_Init has happened since the last Spi_DeInit.  *)
C30_RejectedUntilInit ==
    /\ initSince <=> (\E c \in Channels : Spi_Status[c] # SPI_UNINIT)
    /\ lastCall.op \in RunOps =>
          /\ ~initSince => RunRejected
          /\ (initSince /\ lastCall.arg < SPI_MAX_SEQUENCE) => ~RunRejected
          /\ (InRun \/ (RunReturned /\ GuardPassed)) => initSince

(* After a run that ended Ok the module has been shut down, and the next   *)
(* run of the same sequence has been turned away.                          *)
C30_Witness ==
    /\ lastCall.op = "Spi_AsyncTransmit"
    /\ lastCall.arg = 0
    /\ ~initSince
    /\ RunRejected
    /\ Spi_SequenceStatus[0] = SPI_SEQ_OK
    /\ Spi_JobStatus[1] = SPI_JOB_OK

====
